---- MODULE Spec2Model ----
(***************************************************************************)
(* Model of the fantasy-football transfer agent (src/fantasy_agent.py):    *)
(* the Player domain model, the fixture difficulty model, the player       *)
(* evaluator, the transfer search and the agent's suggest_transfers.       *)
(*                                                                         *)
(* Numbers that are floats in the program are exact rationals here: a     *)
(* pair <<n, d>> in lowest terms with d > 0; float('inf') is <<1, 0>>.      *)
(* An Optional field is a sequence of length at most one: <<>> is None,    *)
(* <<v>> is the value v.                                                   *)
(***************************************************************************)
EXTENDS Integers, Naturals, Sequences, FiniteSets, TLC

VARIABLES
    my_team,          \* FantasyAgent.my_team.players : sequence of Player
    team_money,       \* FantasyAgent.my_team.team_money : Optional int
    all_players,      \* FantasyAgent.all_players : sequence of Player
    fixtures,         \* FixtureAnalyzer.fixtures : sequence of Fixture
    now,              \* the clock read by datetime.now(timezone.utc)
    max_suggestions,  \* the max_suggestions argument
    budget_arg,       \* the budget argument of the last find_best_transfers
    suggestions,      \* the list returned by the last find_best_transfers
    outcome,          \* how the last suggest_transfers call ended
    formatted,        \* the list returned by the last suggest_transfers
    scrape_memo,      \* ScraperManager.get_player_data's memo: slug -> result
    search_time,      \* current_time read by the last find_best_transfers
    calls,            \* number of calls made so far
    cost_query,       \* <<j, c>>: get_acquisition_cost of all_players[j] gave c
    transfer_query,   \* <<j, t, b>>: all_players[j].is_transferable(t) gave b
    subject,          \* the Player handed to evaluate_player
    eval_result,      \* Optional record returned by the last evaluate_player
    data_dir,         \* the JSON snapshots under DataLoader.data_dir
    difficulty_query, \* <<n, l>>: get_fixture_difficulty(.., n) gave l
    score_query,      \* Optional result of the last calculate_fixture_score
    team_loaded,      \* FantasyAgent.my_team is not None
    analysis,         \* Optional list returned by the last analyze_current_team
    events,           \* the enrichment and evaluation phases run so far
    lru_order,        \* the slugs get_player_data's lru_cache holds, oldest first
    failed_scrapes    \* ScraperManager._failed_scrapes

vars == <<my_team, team_money, all_players, fixtures, now, max_suggestions,
          budget_arg, suggestions, outcome, formatted, scrape_memo,
          search_time, calls, cost_query, transfer_query, subject,
          eval_result, data_dir, difficulty_query, score_query, team_loaded,
          analysis, events, lru_order, failed_scrapes>>

----------------------------------------------------------------------------
(* Optional values                                                         *)

None == <<>>

Some(v) == <<v>>

\* Python truthiness of an Optional[int]: None and 0 are falsy
TruthyInt(o) == o # None /\ o[1] # 0

\* Python truthiness of an Optional[str]: None and "" are falsy
TruthyStr(o) == o # None /\ o[1] # ""

----------------------------------------------------------------------------
(* Exact rational arithmetic standing for the program's float arithmetic   *)

\* the element of a one-element set: The({F(x) : x \in {e}}) is F applied to
\* the value of e
The(S) == CHOOSE r \in S : TRUE

RECURSIVE GCD(_, _)
GCD(a, b) == IF b = 0 THEN a ELSE GCD(b, a % b)

IAbs(n) == IF n < 0 THEN -n ELSE n

Reduce(n, d, g) ==
    IF d < 0 THEN <<(-n) \div g, (-d) \div g>> ELSE <<n \div g, d \div g>>

\* the rational n / d in lowest terms
R(n, d) == Reduce(n, d, GCD(IAbs(n), IAbs(d)))

Inf == <<1, 0>>

IsInf(a) == a[2] = 0

RInt(n) == <<n, 1>>

AddQ(a, b) ==
    IF IsInf(a) \/ IsInf(b) THEN Inf
    ELSE R(a[1] * b[2] + b[1] * a[2], a[2] * b[2])

NegQ(a) == <<-a[1], a[2]>>

\* a - b for a finite b (inf - x = inf)
SubQ(a, b) == IF IsInf(a) THEN Inf ELSE AddQ(a, NegQ(b))

MulQ(a, b) ==
    IF IsInf(a) \/ IsInf(b) THEN Inf
    ELSE R(a[1] * b[1], a[2] * b[2])

\* a / b for finite a and finite non-zero b
DivQ(a, b) == R(a[1] * b[2], a[2] * b[1])

LtQ(a, b) ==
    IF IsInf(a) THEN FALSE
    ELSE IF IsInf(b) THEN TRUE
    ELSE a[1] * b[2] < b[1] * a[2]

MinQ(a, b) == IF LtQ(b, a) THEN b ELSE a

MaxQ(a, b) == IF LtQ(a, b) THEN b ELSE a

AbsQ(a) == <<IAbs(a[1]), a[2]>>

RECURSIVE SumSeq(_)
SumSeq(s) == IF s = <<>> THEN 0 ELSE Head(s) + SumSeq(Tail(s))

RECURSIVE RSumSeq(_)
RSumSeq(s) == IF s = <<>> THEN RInt(0) ELSE AddQ(Head(s), RSumSeq(Tail(s)))

----------------------------------------------------------------------------
(* ScrapedPlayerData (src/fantasy_agent.py:21-52)                          *)
(* A record [jerarquia, play_probability, form_arrow, injury_risk], each   *)
(* field Optional; play_probability holds a rational.                      *)

ScrapedPlayerData(j, p, f, r) ==
    [jerarquia |-> j, play_probability |-> p, form_arrow |-> f,
     injury_risk |-> r]

\* INJURY_RISK_SCORES.get(label, 0.7)
INJURY_RISK_SCORES(label) ==
    CASE label = "Ironman" -> <<13, 10>>
      [] label = "Bajo"    -> <<1, 1>>
      [] label = "Medio"   -> <<1, 2>>
      [] label = "Alto"    -> <<1, 10>>
      [] OTHER             -> <<7, 10>>

get_injury_risk_score(sd) ==
    IF ~TruthyStr(sd.injury_risk) THEN <<7, 10>>
    ELSE INJURY_RISK_SCORES(sd.injury_risk[1])

\* six ranks instead of seven: rank 6 scores nothing
get_jerarquia_score_SixRanks(sd) ==
    IF ~TruthyInt(sd.jerarquia) THEN <<1, 2>>
    ELSE R(6 - sd.jerarquia[1], 5)

get_jerarquia_score(sd) ==
    IF ~TruthyInt(sd.jerarquia) THEN <<1, 2>>
    ELSE R(7 - sd.jerarquia[1], 6)

get_form_score(sd) ==
    IF ~TruthyInt(sd.form_arrow) THEN <<1, 2>>
    ELSE SubQ(RInt(5), R(sd.form_arrow[1], 5))

\* truthiness of an Optional[float] held as a rational
TruthyRat(o) == o # None /\ o[1][1] # 0

----------------------------------------------------------------------------
(* Player (src/fantasy_agent.py:55-151)                                    *)

MILLION == 1000000

price_in_millions(p) == R(p.market_value, MILLION)

points_per_game(p) == p.average_points

form_last_3(p) ==
    IF p.last_3_weeks = <<>> THEN p.average_points
    ELSE R(SumSeq(p.last_3_weeks), Len(p.last_3_weeks))

\* a player without recorded minutes counted as fully reliable
minutes_reliability_EmptyReliable(p) ==
    IF p.minutes_last_3 = <<>> THEN <<1, 1>>
    ELSE MinQ(DivQ(R(SumSeq(p.minutes_last_3), Len(p.minutes_last_3)),
                   RInt(90)),
              RInt(1))

minutes_reliability(p) ==
    IF p.minutes_last_3 = <<>> THEN <<1, 2>>
    ELSE MinQ(DivQ(R(SumSeq(p.minutes_last_3), Len(p.minutes_last_3)),
                   RInt(90)),
              RInt(1))

is_available(p) == p.player_status = "ok"

\* the lock counted as expired at the very instant it ends
is_transferable_NonStrict(p, current_time) ==
    IF p.is_on_market THEN TRUE
    ELSE IF p.buyout_locked_until # None
            /\ p.buyout_locked_until[1] <= current_time THEN TRUE
    ELSE FALSE

is_transferable(p, current_time) ==
    IF p.is_on_market THEN TRUE
    ELSE IF p.buyout_locked_until # None
            /\ p.buyout_locked_until[1] < current_time THEN TRUE
    ELSE FALSE

\* the sale price taken whether or not the player is listed
get_acquisition_cost_AnySale(p) ==
    IF TruthyInt(p.sale_price)
        THEN R(p.sale_price[1], MILLION)
    ELSE IF TruthyInt(p.buyout_clause)
        THEN R(p.buyout_clause[1], MILLION)
    ELSE Inf

get_acquisition_cost(p) ==
    IF p.is_on_market /\ TruthyInt(p.sale_price)
        THEN R(p.sale_price[1], MILLION)
    ELSE IF TruthyInt(p.buyout_clause)
        THEN R(p.buyout_clause[1], MILLION)
    ELSE Inf

\* Team.budget_millions
budget_millions(money) ==
    IF money = None THEN RInt(0) ELSE R(money[1], MILLION)

----------------------------------------------------------------------------
(* FixtureAnalyzer (src/fantasy_agent.py:519-634)                          *)
(* Ratings are held in tenths; team names are written without accents.     *)

TEAM_STRENGTHS ==
    ("Real Madrid" :> <<50, 45>>) @@ ("FC Barcelona" :> <<48, 42>>) @@
    ("Atletico de Madrid" :> <<40, 48>>) @@ ("Athletic Club" :> <<42, 40>>) @@
    ("Real Sociedad" :> <<40, 38>>) @@ ("Villarreal CF" :> <<38, 38>>) @@
    ("Real Betis" :> <<38, 35>>) @@ ("Valencia CF" :> <<35, 35>>) @@
    ("Sevilla FC" :> <<35, 38>>) @@ ("Girona FC" :> <<35, 33>>) @@
    ("RC Celta" :> <<35, 30>>) @@ ("RCD Mallorca" :> <<33, 35>>) @@
    ("Rayo Vallecano" :> <<33, 32>>) @@ ("C.A. Osasuna" :> <<32, 35>>) @@
    ("Getafe CF" :> <<28, 38>>) @@ ("UD Las Palmas" :> <<30, 28>>) @@
    ("Deportivo Alaves" :> <<28, 30>>) @@ ("RCD Espanyol" :> <<28, 30>>) @@
    ("CD Leganes" :> <<25, 32>>) @@ ("Real Valladolid" :> <<25, 28>>)

DEFAULT_STRENGTH == <<30, 30>>

opp_strength(opponent) ==
    IF opponent \in DOMAIN TEAM_STRENGTHS THEN TEAM_STRENGTHS[opponent]
    ELSE DEFAULT_STRENGTH

\* (attack + defense) / 2
avg_opponent_strength(st) == R(st[1] + st[2], 20)

\* the adjustment with its signs exchanged: harder at home
adjusted_difficulty_HomeHarder(d, is_home) ==
    IF is_home THEN AddQ(d, <<1, 2>>) ELSE SubQ(d, <<1, 5>>)

\* 6 - avg_opponent_strength, then the home or away adjustment
adjusted_difficulty(d, is_home) ==
    IF is_home THEN SubQ(d, <<1, 2>>) ELSE AddQ(d, <<1, 5>>)

_calculate_match_difficulty(opponent, is_home) ==
    MaxQ(RInt(1),
         MinQ(RInt(5),
              The({adjusted_difficulty(d, is_home) :
                      d \in {SubQ(RInt(6),
                                  avg_opponent_strength(
                                      opp_strength(opponent)))}})))

fixture_entry(f, opponent, is_home) ==
    [opponent |-> opponent, is_home |-> is_home,
     difficulty |-> _calculate_match_difficulty(opponent, is_home),
     date |-> f.match_date]

\* the loop going on until one fixture more than asked is collected
reached_horizon_Late(team_fixtures, next_n_weeks) ==
    Len(team_fixtures) > next_n_weeks

\* if len(team_fixtures) >= next_n_weeks: break
reached_horizon(team_fixtures, next_n_weeks) ==
    Len(team_fixtures) >= next_n_weeks

\* team_fixtures after the loop has handled the fixtures from index i on
RECURSIVE FixtureScan(_, _, _, _, _)
FixtureScan(fs, i, team_id, next_n_weeks, team_fixtures) ==
    IF i > Len(fs) THEN team_fixtures
    ELSE IF fs[i].home_team_id # team_id /\ fs[i].away_team_id # team_id
        THEN FixtureScan(fs, i + 1, team_id, next_n_weeks, team_fixtures)
    ELSE The({IF reached_horizon(grown, next_n_weeks) THEN grown
              ELSE FixtureScan(fs, i + 1, team_id, next_n_weeks, grown) :
                 grown \in {Append(team_fixtures,
                     IF fs[i].home_team_id = team_id
                         THEN fixture_entry(fs[i], fs[i].away_team_name, TRUE)
                     ELSE fixture_entry(fs[i], fs[i].home_team_name,
                                        FALSE))}})

get_fixture_difficulty(fs, team_id, next_n_weeks) ==
    FixtureScan(fs, 1, team_id, next_n_weeks, <<>>)

\* [1.0, 0.8, 0.6]
FIXTURE_WEIGHTS == <<<<1, 1>>, <<4, 5>>, <<3, 5>>>>

\* the three weights whatever the number of fixtures
weights_for_Full(fx) == FIXTURE_WEIGHTS

\* [1.0, 0.8, 0.6][:len(fixtures)]
weights_for(fx) ==
    SubSeq(FIXTURE_WEIGHTS, 1, IF Len(fx) < 3 THEN Len(fx) ELSE 3)

\* sum(s * w for s, w in zip(scores, weights)) from position i on, where
\* scores[i] = fixtures[i]['difficulty'] * 2
RECURSIVE WeightedSum(_, _)
WeightedSum(fx, i) ==
    IF i > Len(fx) \/ i > Len(weights_for(fx)) THEN RInt(0)
    ELSE AddQ(MulQ(MulQ(fx[i].difficulty, RInt(2)), weights_for(fx)[i]),
              WeightedSum(fx, i + 1))

weighted_avg(fx) ==
    IF fx = <<>> THEN RInt(5)
    ELSE DivQ(WeightedSum(fx, 1), RSumSeq(weights_for(fx)))

calculate_fixture_score(fs, p, next_weeks) ==
    The({weighted_avg(fx) :
            fx \in {get_fixture_difficulty(fs, p.team_id, next_weeks)}})

----------------------------------------------------------------------------
(* PlayerEvaluator (src/fantasy_agent.py:641-851)                          *)

WEIGHTS ==
    [form |-> 15, fixtures |-> 20, ppg |-> 15, value |-> 10,
     jerarquia |-> 15, probability |-> 10, injury |-> 5]

\* min(form_raw / 10.0, 1.0) * WEIGHTS['form']
form_base(p) ==
    MulQ(MinQ(DivQ(form_last_3(p), RInt(10)), RInt(1)), RInt(WEIGHTS.form))

_calculate_form_score(p) ==
    IF p.scraped_data # None /\ TruthyInt(p.scraped_data[1].form_arrow)
        THEN AddQ(form_base(p),
                  MulQ(get_form_score(p.scraped_data[1]), RInt(10)))
    ELSE AddQ(form_base(p), RInt(5))

_calculate_fixture_score(fs, p) ==
    MulQ(DivQ(SubQ(RInt(10), SubQ(calculate_fixture_score(fs, p, 3),
                                  RInt(2))),
              RInt(8)),
         RInt(WEIGHTS.fixtures))

_calculate_ppg_score(p) ==
    MulQ(MinQ(DivQ(points_per_game(p), RInt(10)), RInt(1)), RInt(WEIGHTS.ppg))

value_raw(p) ==
    DivQ(points_per_game(p), MaxQ(price_in_millions(p), <<1, 10>>))

_calculate_value_score(p) ==
    MulQ(MinQ(DivQ(value_raw(p), RInt(2)), RInt(1)), RInt(WEIGHTS.value))

\* no hierarchy points without a scraped rank
_calculate_jerarquia_score_Zero(p) ==
    IF p.scraped_data # None /\ TruthyInt(p.scraped_data[1].jerarquia)
        THEN MulQ(get_jerarquia_score(p.scraped_data[1]),
                  RInt(WEIGHTS.jerarquia))
    ELSE RInt(0)

_calculate_jerarquia_score(p) ==
    IF p.scraped_data # None /\ TruthyInt(p.scraped_data[1].jerarquia)
        THEN MulQ(get_jerarquia_score(p.scraped_data[1]),
                  RInt(WEIGHTS.jerarquia))
    ELSE R(WEIGHTS.jerarquia, 2)

_calculate_probability_score(p) ==
    IF p.scraped_data # None /\ TruthyRat(p.scraped_data[1].play_probability)
        THEN MulQ(p.scraped_data[1].play_probability[1],
                  RInt(WEIGHTS.probability))
    ELSE MulQ(RInt(WEIGHTS.probability), <<7, 10>>)

_calculate_injury_score(p) ==
    IF p.scraped_data # None /\ TruthyStr(p.scraped_data[1].injury_risk)
        THEN MulQ(get_injury_risk_score(p.scraped_data[1]),
                  RInt(WEIGHTS.injury))
    ELSE MulQ(RInt(WEIGHTS.injury), <<7, 10>>)

\* if player.minutes_reliability() < 0.6: score *= 0.7
low_minutes_penalty(p, score) ==
    IF LtQ(minutes_reliability(p), <<3, 5>>) THEN MulQ(score, <<7, 10>>)
    ELSE score

\* if player.player_status != "ok": score *= 0.5
unavailable_penalty(p, score) ==
    IF p.player_status # "ok" THEN MulQ(score, <<1, 2>>) ELSE score

\* the two penalties not stacking: only the harsher one is applied
_apply_penalties_NoStack(p, score) ==
    IF p.player_status # "ok" THEN MulQ(score, <<1, 2>>)
    ELSE low_minutes_penalty(p, score)

_apply_penalties(p, score) ==
    The({unavailable_penalty(p, s2) :
            s2 \in {The({low_minutes_penalty(p, s1) : s1 \in {score}})}})

\* the seven sub-scores, in the order evaluate_player computes them
sub_scores(fs, p) ==
    <<_calculate_form_score(p), _calculate_fixture_score(fs, p),
      _calculate_ppg_score(p), _calculate_value_score(p),
      _calculate_jerarquia_score(p), _calculate_probability_score(p),
      _calculate_injury_score(p)>>

\* the dictionary evaluate_player returns, given the seven sub-scores
evaluation(fs, p, sc) ==
    [total_score         |-> _apply_penalties(p, RSumSeq(sc)),
     form                |-> form_last_3(p),
     form_score          |-> sc[1],
     fixtures            |-> calculate_fixture_score(fs, p, 3),
     fixture_score       |-> sc[2],
     ppg                 |-> points_per_game(p),
     ppg_score           |-> sc[3],
     value               |-> value_raw(p),
     value_score         |-> sc[4],
     jerarquia_score     |-> sc[5],
     probability_score   |-> sc[6],
     injury_score        |-> sc[7],
     minutes_reliability |-> minutes_reliability(p),
     is_available        |-> is_available(p),
     scraped_jerarquia   |-> IF p.scraped_data # None
                                 THEN p.scraped_data[1].jerarquia
                                 ELSE None,
     scraped_probability |-> IF p.scraped_data # None
                                 THEN p.scraped_data[1].play_probability
                                 ELSE None,
     scraped_form_arrow  |-> IF p.scraped_data # None
                                 THEN p.scraped_data[1].form_arrow
                                 ELSE None,
     scraped_injury_risk |-> IF p.scraped_data # None
                                 THEN p.scraped_data[1].injury_risk
                                 ELSE None]

evaluate_player(fs, player) ==
    The({evaluation(fs, p, sc) :
            p \in {player}, sc \in {sub_scores(fs, player)}})

_get_acquisition_type(p, current_time) ==
    IF p.is_on_market THEN <<"Market">>
    ELSE IF p.buyout_locked_until # None
            /\ p.buyout_locked_until[1] < current_time
        THEN <<"Buyout", p.owned_by>>
    ELSE <<"Unknown">>

\* the availability of a candidate is not looked at
IsCandidate_AnyStatus(team, p, current_time) ==
    /\ \A i \in 1..Len(team) : team[i].id # p.id
    /\ is_transferable(p, current_time)

\* the candidate filter of find_best_transfers
IsCandidate(team, p, current_time) ==
    /\ \A i \in 1..Len(team) : team[i].id # p.id
    /\ is_available(p)
    /\ is_transferable(p, current_time)

\* the candidates among available_players[i..]
RECURSIVE candidates_from(_, _, _, _)
candidates_from(team, available_players, i, current_time) ==
    IF i > Len(available_players) THEN <<>>
    ELSE (IF IsCandidate(team, available_players[i], current_time)
              THEN <<available_players[i]>> ELSE <<>>)
         \o candidates_from(team, available_players, i + 1, current_time)

candidates_of(team, available_players, current_time) ==
    candidates_from(team, available_players, 1, current_time)

\* the owned non-coach players that hold an id
holders(team, id) ==
    {i \in 1..Len(team) : team[i].id = id /\ team[i].position_id # 5}

\* current_scores[id]: the evaluation of the last non-coach owned player
\* holding that id
current_scores(fs, team, id) ==
    evaluate_player(fs, team[CHOOSE i \in holders(team, id) :
                                 \A j \in holders(team, id) : j <= i])

\* net_cost = acquisition_cost - current_player.price_in_millions()
net_cost_of(acquisition_cost, current_player) ==
    SubQ(acquisition_cost, price_in_millions(current_player))

\* only an unbounded cost skips a pair: the budget is not looked at
ExceedsBudget_OnlyUnbounded(net_cost, budget) == IsInf(net_cost)

\* the test "net_cost > budget" that skips a pair
ExceedsBudget(net_cost, budget) == LtQ(budget, net_cost)

\* an improvement of exactly 3 is accepted
IsSignificant_Inclusive(score_improvement) ==
    ~LtQ(score_improvement, RInt(3))

\* the test "score_improvement > 3" that accepts a pair
IsSignificant(score_improvement) == LtQ(RInt(3), score_improvement)

\* the net cost taken with its sign
value_ratio_of_NoAbs(score_improvement, net_cost) ==
    DivQ(score_improvement, MaxQ(net_cost, <<1, 10>>))

\* score_improvement / max(abs(net_cost), 0.1)
value_ratio_of(score_improvement, net_cost) ==
    DivQ(score_improvement, MaxQ(AbsQ(net_cost), <<1, 10>>))

\* the dictionary appended for an accepted pair
suggestion(current_player, current_eval, candidate, candidate_eval, score_improvement, acquisition_cost, net_cost, current_time) ==
    [player_out       |-> current_player,
     player_out_score |-> current_eval.total_score,
     player_out_eval  |-> current_eval,
     player_in        |-> candidate,
     player_in_score  |-> candidate_eval.total_score,
     player_in_eval   |-> candidate_eval,
     improvement      |-> score_improvement,
     acquisition_cost |-> acquisition_cost,
     net_cost         |-> net_cost,
     value_ratio      |-> value_ratio_of(score_improvement, net_cost),
     acquisition_type |-> _get_acquisition_type(candidate, current_time)]

\* the inner loop body once the candidate is evaluated
scored_pair(current_player, current_eval, candidate, candidate_eval, acquisition_cost, net_cost, current_time) ==
    The({IF IsSignificant(score_improvement)
             THEN <<suggestion(current_player, current_eval, candidate,
                               candidate_eval, score_improvement,
                               acquisition_cost, net_cost, current_time)>>
         ELSE <<>> :
            score_improvement \in {SubQ(candidate_eval.total_score,
                                        current_eval.total_score)}})

\* the inner loop body once the costs are known
costed_pair(fs, current_player, current_eval, candidate, acquisition_cost, net_cost, budget, current_time) ==
    IF ExceedsBudget(net_cost, budget) THEN <<>>
    ELSE The({scored_pair(current_player, current_eval, candidate,
                          candidate_eval, acquisition_cost, net_cost,
                          current_time) :
                 candidate_eval \in {evaluate_player(fs, candidate)}})

\* the body of the inner loop for one (owned player, candidate) pair:
\* the list of zero or one suggestion it appends
PairSuggestion(fs, current_player, current_eval, candidate, budget, current_time) ==
    The({The({costed_pair(fs, current_player, current_eval, candidate,
                          acquisition_cost, net_cost, budget, current_time) :
                 net_cost \in {net_cost_of(acquisition_cost,
                                           current_player)}}) :
            acquisition_cost \in {get_acquisition_cost(candidate)}})

\* the suggestions appended for candidates[j..]
RECURSIVE InnerLoop(_, _, _, _, _, _, _)
InnerLoop(fs, current_player, current_eval, candidates, j, budget, current_time) ==
    IF j > Len(candidates) THEN <<>>
    ELSE PairSuggestion(fs, current_player, current_eval, candidates[j],
                        budget, current_time)
         \o InnerLoop(fs, current_player, current_eval, candidates, j + 1,
                      budget, current_time)

\* the outer loop body for one owned player
owned_step(fs, team, current_player, available_players, budget, current_time) ==
    IF current_player.position_id = 5 THEN <<>>
    ELSE The({InnerLoop(fs, current_player, current_eval, candidates, 1,
                        budget, current_time) :
                 current_eval \in {current_scores(fs, team,
                                                  current_player.id)},
                 candidates \in {candidates_of(team, available_players,
                                               current_time)}})

\* the suggestions appended for team[i..]
RECURSIVE OuterLoop(_, _, _, _, _, _)
OuterLoop(fs, team, i, available_players, budget, current_time) ==
    IF i > Len(team) THEN <<>>
    ELSE owned_step(fs, team, team[i], available_players, budget,
                    current_time)
         \o OuterLoop(fs, team, i + 1, available_players, budget,
                      current_time)

\* the unsorted list transfer_suggestions built by the two loops
accepted_pairs(fs, team, available_players, budget, current_time) ==
    OuterLoop(fs, team, 1, available_players, budget, current_time)

\* x overtaking also the entries whose key equals its own
ranks_below_OrEqual(entry, x) == ~LtQ(x.value_ratio, entry.value_ratio)

\* key=lambda x: x['value_ratio'], reverse=True: entry sorts after x only
\* when its key is smaller
ranks_below(entry, x) == LtQ(entry.value_ratio, x.value_ratio)

\* sorted[1..i-1] with x put in front of sorted[i], the first entry that
\* ranks below x
RECURSIVE InsertByRatio(_, _, _)
InsertByRatio(sorted, x, i) ==
    IF i > Len(sorted) THEN Append(sorted, x)
    ELSE IF ranks_below(sorted[i], x)
        THEN SubSeq(sorted, 1, i - 1) \o <<x>> \o SubSeq(sorted, i, Len(sorted))
    ELSE InsertByRatio(sorted, x, i + 1)

\* list.sort(key=value_ratio, reverse=True) of s[1..n]: stable, largest
\* key first
RECURSIVE SortByRatio(_, _)
SortByRatio(s, n) ==
    IF n = 0 THEN <<>>
    ELSE The({InsertByRatio(sorted, s[n], 1) :
                 sorted \in {SortByRatio(s, n - 1)}})

\* s[:n] as Python slices it
Truncate(s, n) ==
    IF n >= 0 THEN SubSeq(s, 1, IF n < Len(s) THEN n ELSE Len(s))
    ELSE SubSeq(s, 1, IF Len(s) + n > 0 THEN Len(s) + n ELSE 0)

find_best_transfers(fs, team, available_players, budget, max_sugg, current_time) ==
    The({Truncate(The({SortByRatio(pairs, Len(pairs))}), max_sugg) :
            pairs \in {accepted_pairs(fs, team, available_players, budget,
                                      current_time)}})

----------------------------------------------------------------------------
(* ScraperManager (src/fantasy_agent.py:213-283)                           *)
(* The slug of a player stands for its id; the memo holds, per slug, the   *)
(* value get_player_data returned: a signal, or None after a failure.      *)

\* enrich_player, given the value get_player_data returns for the player
enrich_player(p, memo) ==
    IF p.position_id = 5 THEN p
    ELSE IF memo[p.id] # None THEN [p EXCEPT !.scraped_data = memo[p.id]]
    ELSE p

TOP_N_PER_POSITION == 15

MAX_TO_SCRAPE == 1000

RECURSIVE InsertByAverage(_, _, _)
InsertByAverage(sorted, x, i) ==
    IF i > Len(sorted) THEN Append(sorted, x)
    ELSE IF LtQ(sorted[i].average_points, x.average_points)
        THEN SubSeq(sorted, 1, i - 1) \o <<x>> \o SubSeq(sorted, i, Len(sorted))
    ELSE InsertByAverage(sorted, x, i + 1)

\* list.sort(key=average_points, reverse=True) of s[1..n]: stable, largest
\* first
RECURSIVE SortByAverage(_, _)
SortByAverage(s, n) ==
    IF n = 0 THEN <<>>
    ELSE The({InsertByAverage(sorted, s[n], 1) :
                 sorted \in {SortByAverage(s, n - 1)}})

\* the players of one position among s[i..], in order
RECURSIVE OfPosition(_, _, _)
OfPosition(s, pos, i) ==
    IF i > Len(s) THEN <<>>
    ELSE (IF s[i].position_id = pos THEN <<s[i]>> ELSE <<>>)
         \o OfPosition(s, pos, i + 1)

\* position_players.sort(...); position_players[:TOP_N_PER_POSITION]
top_of_position(players, pos) ==
    The({Truncate(SortByAverage(of_pos, Len(of_pos)), TOP_N_PER_POSITION) :
            of_pos \in {OfPosition(players, pos, 1)}})

_filter_top_candidates(players) ==
    The({top_of_position(ps, 1) \o top_of_position(ps, 2)
         \o top_of_position(ps, 3) \o top_of_position(ps, 4) :
            ps \in {players}})

\* the transferable players among players[i..], in order
RECURSIVE transferable_from(_, _, _)
transferable_from(players, i, current_time) ==
    IF i > Len(players) THEN <<>>
    ELSE (IF is_transferable(players[i], current_time)
              THEN <<players[i]>> ELSE <<>>)
         \o transferable_from(players, i + 1, current_time)

transferable_of(players, current_time) ==
    transferable_from(players, 1, current_time)

\* the non-coach indices of a list
non_coaches(players) ==
    {i \in 1..Len(players) : players[i].position_id # 5}

\* the ids enrich_players_batch looks up: the non-coach players among the
\* first MAX_TO_SCRAPE non-coach entries
batch_ids(players) ==
    {players[i].id : i \in {k \in non_coaches(players) :
         Cardinality({j \in non_coaches(players) : j < k}) < MAX_TO_SCRAPE}}

\* the slugs enrich_players_batch looks up among players[i..], in order,
\* n lookups having been made before
RECURSIVE batch_from(_, _, _)
batch_from(players, i, n) ==
    IF i > Len(players) \/ n >= MAX_TO_SCRAPE THEN <<>>
    ELSE IF players[i].position_id = 5 THEN batch_from(players, i + 1, n)
    ELSE <<players[i].id>> \o batch_from(players, i + 1, n + 1)

\* @lru_cache(maxsize=100)
LRU_MAXSIZE == 100

\* the elements of a sequence
Range(s) == {s[i] : i \in 1..Len(s)}

\* s without the element x
RECURSIVE Without(_, _)
Without(s, x) ==
    IF s = <<>> THEN <<>>
    ELSE (IF Head(s) = x THEN <<>> ELSE <<Head(s)>>) \o Without(Tail(s), x)

\* the cache order after a call with the key slug: a hit makes the key the
\* most recent, a miss adds it and drops the oldest key of a full cache
lru_touch(order, slug) ==
    IF slug \in Range(order) THEN Append(Without(order, slug), slug)
    ELSE IF Len(order) >= LRU_MAXSIZE THEN Append(Tail(order), slug)
    ELSE Append(order, slug)

\* the cache order after the calls slugs[i..]
RECURSIVE lru_touch_all(_, _, _)
lru_touch_all(order, slugs, i) ==
    IF i > Len(slugs) THEN order
    ELSE lru_touch_all(lru_touch(order, slugs[i]), slugs, i + 1)

\* the cached results once the cache holds the keys of order
lru_kept(memo, order) == [slug \in Range(order) |-> memo[slug]]

\* the record FantasyScraper.get_player_info returns: a dictionary with any
\* of the keys, an absent key or a null value being None
ScraperRecord(jerarquia, probabilities, arrow_numbers, riesgo_lesion, rs_cuadros_phone) ==
    [jerarquia |-> jerarquia, probabilities |-> probabilities,
     arrow_numbers |-> arrow_numbers, riesgo_lesion |-> riesgo_lesion,
     rs_cuadros_phone |-> rs_cuadros_phone]

\* the ScrapedPlayerData get_player_data builds from the scraper's record
scraped_from(data) ==
    ScrapedPlayerData(IF TruthyInt(data.jerarquia) THEN data.jerarquia
                      ELSE None,
                      data.probabilities, data.arrow_numbers,
                      data.rs_cuadros_phone)

\* the remembered failures not consulted before scraping
scraper_invoked_Always(slug, failed) == TRUE

\* get_player_data(slug) when the body runs (a cache miss): the result, and
\* whether the scraper is invoked; got is what the scraper would give, a
\* record or None for an exception
scraper_invoked(slug, failed) == slug \notin failed

get_player_data_miss(slug, failed, got) ==
    IF slug \in failed THEN None
    ELSE IF got = None THEN None
    ELSE Some(scraped_from(got[1]))

----------------------------------------------------------------------------
(* FantasyAgent._format_transfer_suggestions                               *)
(* (src/fantasy_agent.py:1033-1098)                                        *)

\* n / d rounded to the nearest integer, ties to even
HalfEven(n, d) ==
    IF 2 * (n % d) < d THEN n \div d
    ELSE IF 2 * (n % d) > d THEN (n \div d) + 1
    ELSE IF (n \div d) % 2 = 0 THEN n \div d ELSE (n \div d) + 1

\* round(x * 10^k) to the nearest integer, ties to even, as the float
\* format specs .0f, .1f and .2f do
RoundScaled(x, scale) == The({HalfEven(v[1] * scale, v[2]) : v \in {x}})

NA == <<"N/A">>

\* out_eval.get('scraped_probability', 0) * 100 raises TypeError when the
\* key is present with the value None
FormatRaises(transfer) == transfer.player_out_eval.scraped_probability = None

FormatOne(transfer, budget) ==
    [improvement  |-> RoundScaled(transfer.improvement, 10),
     out_name     |-> transfer.player_out.id,
     out_team     |-> transfer.player_out.team_name,
     out_score    |-> RoundScaled(transfer.player_out_score, 10),
     out_price    |->
         RoundScaled(price_in_millions(transfer.player_out), 10),
     out_jerarquia |->
         IF transfer.player_out_eval.scraped_jerarquia = None
             THEN <<"None/6">>
         ELSE <<"/6", transfer.player_out_eval.scraped_jerarquia[1]>>,
     out_prob     |->
         RoundScaled(MulQ(transfer.player_out_eval.scraped_probability[1],
                          RInt(100)), 1),
     in_name      |-> transfer.player_in.id,
     in_team      |-> transfer.player_in.team_name,
     in_score     |-> RoundScaled(transfer.player_in_score, 10),
     in_price     |-> RoundScaled(transfer.acquisition_cost, 10),
     in_source    |-> transfer.acquisition_type,
     in_jerarquia |->
         IF TruthyInt(transfer.player_in_eval.scraped_jerarquia)
             THEN <<"/6", transfer.player_in_eval.scraped_jerarquia[1]>>
         ELSE NA,
     in_prob      |->
         IF transfer.player_in_eval.scraped_probability # None
             THEN <<"%", RoundScaled(
                      MulQ(transfer.player_in_eval.scraped_probability[1],
                           RInt(100)), 1)>>
         ELSE NA,
     in_form      |->
         IF TruthyInt(transfer.player_in_eval.scraped_form_arrow)
             THEN <<"/5", transfer.player_in_eval.scraped_form_arrow[1]>>
         ELSE NA,
     in_risk      |->
         IF TruthyStr(transfer.player_in_eval.scraped_injury_risk)
             THEN <<transfer.player_in_eval.scraped_injury_risk[1]>>
         ELSE NA,
     net_cost     |-> RoundScaled(transfer.net_cost, 10),
     value_ratio  |-> RoundScaled(transfer.value_ratio, 100),
     remaining_budget |->
         RoundScaled(SubQ(budget, transfer.net_cost), 10)]

_format_transfer_suggestions(suggs, budget) ==
    [i \in 1..Len(suggs) |-> FormatOne(suggs[i], budget)]

----------------------------------------------------------------------------
(* Inputs                                                                  *)

TeamSize == 2         \* number of owned players
PoolSize == 3         \* number of players in the pool
MaxSuggestions == 2   \* largest max_suggestions argument
MaxTime == 2          \* latest clock value
MaxCalls == 1         \* calls made in one run

\* Player(...) with the fields the evaluator and the search read
Player(id, pos, avg, mins, mv, status, sd) ==
    [id |-> id, position_id |-> pos, team_id |-> "t2",
     team_name |-> "Valencia CF", average_points |-> avg,
     last_3_weeks |-> <<>>, minutes_last_3 |-> mins, market_value |-> mv,
     player_status |-> status, is_on_market |-> FALSE, owned_by |-> None,
     buyout_clause |-> None, buyout_locked_until |-> None,
     sale_price |-> None, scraped_data |-> sd]

\* the market and ownership fields a merge can leave on a Player
Listed(p, sale) == [p EXCEPT !.is_on_market = TRUE, !.sale_price = sale]

Owned(p, clause, lock) ==
    [p EXCEPT !.owned_by = Some("m2"), !.buyout_clause = clause,
              !.buyout_locked_until = lock]

PlaysFor(p, tid, tname) == [p EXCEPT !.team_id = tid, !.team_name = tname]

FullMinutes == <<90, 90, 90>>

SigOwner == ScrapedPlayerData(Some(5), Some(<<9, 10>>), None, None)
Sig46 == ScrapedPlayerData(Some(3), Some(<<1, 1>>), None, None)
Sig43 == ScrapedPlayerData(Some(3), Some(<<7, 10>>), None, None)
Sig42 == ScrapedPlayerData(Some(3), Some(<<3, 5>>), None, None)
SigStar == ScrapedPlayerData(Some(1), Some(<<1, 1>>), None, Some("Bajo"))
SigAbsent == ScrapedPlayerData(None, None, None, None)

\* an owned player worth 8M whose total score is 40
Scorer(id) ==
    Player(id, 3, RInt(0), FullMinutes, 8 * MILLION, "ok", Some(SigOwner))

\* owned players as _parse_team_players builds them (no market fields)
TeamVariants(id) ==
    IF id = "a"
        THEN { Scorer(id),
               Player(id, 3, RInt(0), <<>>, 8 * MILLION, "ok",
                      Some(SigAbsent)),
               Player(id, 3, RInt(0), FullMinutes, 8 * MILLION, "ok", None),
               Player(id, 5, RInt(0), <<>>, MILLION, "ok", None) }
    ELSE { Scorer(id) }

\* the rosters: the first TeamSize of the owned players a, b, e
Teams ==
    { SubSeq(<<a, b, e>>, 1, IF TeamSize < 3 THEN TeamSize ELSE 3) :
        a \in TeamVariants("a"), b \in TeamVariants("b"),
        e \in TeamVariants("e") }

\* load_all_players leaves minutes_last_3 and last_3_weeks of every pool
\* player empty
NoMinutes == <<>>

\* a listed candidate priced 10M whose total score is 46
Bargain(id) ==
    Listed(Player(id, 3, R(276, 49), NoMinutes, 10 * MILLION, "ok",
                  Some(Sig46)), Some(10 * MILLION))

\* candidates told apart by score: 46, 43, 42 and an injured player
ScoreVariants(id) ==
    { Bargain(id),
      Listed(Player(id, 3, R(258, 49), NoMinutes, 10 * MILLION, "ok",
                    Some(Sig43)), Some(10 * MILLION)),
      Listed(Player(id, 3, R(36, 7), NoMinutes, 10 * MILLION, "ok",
                    Some(Sig42)), Some(10 * MILLION)),
      Listed(Player(id, 3, RInt(10), NoMinutes, MILLION, "injured",
                    Some(SigStar)), Some(MILLION)) }

\* a candidate of team t1 with no market or ownership field set
Unlisted(id) ==
    PlaysFor(Player(id, 3, RInt(10), NoMinutes, 6 * MILLION, "ok", None),
             "t1", "Real Madrid")

\* a candidate owned by another manager, clause 6M, lock expiring at 1
Lapsed(id) == Owned(Unlisted(id), Some(6 * MILLION), Some(1))

\* candidates told apart by market and ownership state
MarketVariants(id) ==
    { Lapsed(id),
      Owned(Unlisted(id), Some(6 * MILLION), Some(2)),
      Owned(Unlisted(id), Some(6 * MILLION), None),
      Owned(Unlisted(id), None, Some(1)),
      Listed(Unlisted(id), None),
      Listed(Unlisted(id), Some(20 * MILLION)),
      Listed(Unlisted(id), Some(0)),
      Listed(Owned(Unlisted(id), Some(6 * MILLION), Some(2)), None),
      Owned(Unlisted(id), Some(0), Some(1)),
      [Unlisted(id) EXCEPT !.sale_price = Some(3 * MILLION)] }

\* a candidate that shares its id with an owned player
OwnedIdVariant(id) ==
    Listed(Player(id, 3, RInt(10), NoMinutes, 10 * MILLION, "ok", None),
           Some(MILLION))

\* the pools: the first PoolSize of the players c, a, d, f, where c varies
\* by score or d by market state
Pools ==
    { SubSeq(<<c, OwnedIdVariant("a"), d, Bargain("f")>>, 1,
             IF PoolSize < 4 THEN PoolSize ELSE 4) :
        <<c, d>> \in
            (ScoreVariants("c") \X {Lapsed("d")})
                \cup ({Bargain("c")} \X MarketVariants("d")) }

Budgets == {None, Some(5 * MILLION)}

Times == 1..MaxTime

\* one fixture of the calendar; team t1 plays at home against team t3
Fixture1 ==
    [match_id |-> "m1", match_date |-> 1,
     home_team_id |-> "t1", home_team_name |-> "Real Madrid",
     away_team_id |-> "t3", away_team_name |-> "Getafe CF"]

\* what one scraper lookup can produce: a failure (None) or a signal
ScrapeOutcomes == {None, Some(Sig46)}

----------------------------------------------------------------------------
(* The agent after initialize: a loaded team, the player pool, the         *)
(* calendar and the evaluator; then calls of suggest_transfers, which      *)
(* runs find_best_transfers, and of get_acquisition_cost while the clock   *)
(* advances.                                                               *)

\* the owned non-coach players' ids: initialize has looked them up
team_slugs(team) ==
    {team[i].id : i \in {j \in 1..Len(team) : team[j].position_id # 5}}

\* the ids of the pool players that carry a signal
pool_slugs(pool) ==
    {pool[i].id : i \in {j \in 1..Len(pool) : pool[j].scraped_data # None}}

\* the signal of the player with an id in a list
signal_of(players, id) ==
    players[CHOOSE i \in 1..Len(players) : players[i].id = id].scraped_data

\* the memo left by the lookups made so far: the owned non-coach players
\* (enriched by initialize) and the pool players that carry a signal
MemoAfterInit(team, pool) ==
    [id \in team_slugs(team) \cup pool_slugs(pool) |->
        IF id \in team_slugs(team) THEN signal_of(team, id)
        ELSE signal_of(pool, id)]

\* the cache order the same lookups left: the owned players' slugs, then
\* the slugs of the pool players that carry a signal
SlugsAfterInit(team, pool) ==
    lru_touch_all(
        lru_touch_all(<<>>, batch_from(team, 1, 0), 1),
        [i \in 1..Len(SelectSeq(pool, LAMBDA p : p.scraped_data # None)) |->
            SelectSeq(pool, LAMBDA p : p.scraped_data # None)[i].id], 1)

Init ==
    /\ my_team \in Teams
    /\ all_players \in Pools
    /\ team_money \in Budgets
    /\ team_money = None => my_team[1] = Scorer("a")
    /\ fixtures = <<Fixture1>>
    /\ now = 1
    /\ max_suggestions = 0
    /\ budget_arg = RInt(0)
    /\ suggestions = <<>>
    /\ outcome = "none"
    /\ formatted = <<>>
    /\ scrape_memo = MemoAfterInit(my_team, all_players)
    /\ search_time = 0
    /\ calls = 0
    /\ cost_query = <<>>
    /\ transfer_query = <<>>
    /\ data_dir = <<>>
    /\ difficulty_query = <<>>
    /\ score_query = None
    /\ team_loaded = TRUE
    /\ analysis = None
    /\ events = <<>>
    /\ lru_order = SlugsAfterInit(my_team, all_players)
    /\ failed_scrapes = {id \in DOMAIN scrape_memo : scrape_memo[id] = None}
    /\ subject = None
    /\ eval_result = None

\* the ids find_best_transfers evaluates: the owned non-coach players, and
\* every candidate whose net cost against some owned non-coach player is
\* within the budget
evaluated_ids(fs, team, available_players, budget, current_time) ==
    {team[i].id : i \in non_coaches(team)}
        \cup {available_players[k].id :
                 k \in {c \in 1..Len(available_players) :
                    /\ IsCandidate(team, available_players[c], current_time)
                    /\ \E i \in non_coaches(team) :
                           ~ExceedsBudget(
                                net_cost_of(get_acquisition_cost(
                                                available_players[c]),
                                            team[i]),
                                budget)}}

\* one phase of a handler: the players whose enrichment was attempted and
\* those a signal was attached to, or the players evaluated
EnrichPhase(attempted, attached) ==
    [kind |-> "enrich", ids |-> attempted, attached |-> attached]

EvaluatePhase(ids) == [kind |-> "evaluate", ids |-> ids, attached |-> {}]

\* agent.suggest_transfers(m, enrich_candidates): the guard, the
\* pre-filter, the batch enrichment, the search and the formatting
DoSuggestTransfers ==
    /\ calls' = calls + 1
    /\ IF ~team_loaded
           THEN /\ outcome' = "empty"
                /\ formatted' = <<>>
                /\ UNCHANGED <<now, scrape_memo, all_players, max_suggestions,
                               budget_arg, search_time, suggestions, events,
                               lru_order, failed_scrapes>>
       ELSE
         \E m \in 1..MaxSuggestions, enrich_candidates \in BOOLEAN, t \in now..MaxTime :
          \E budget \in {budget_millions(team_money)},
             top_candidates \in
                 {_filter_top_candidates(transferable_of(all_players, t))} :
            \E batch \in {IF enrich_candidates /\ top_candidates # <<>>
                              THEN batch_from(top_candidates, 1, 0)
                          ELSE <<>>} :
             \E lookups \in {Range(batch)} :
              \E res \in [lookups \ DOMAIN scrape_memo -> ScrapeOutcomes] :
                \E memo \in {[id \in DOMAIN scrape_memo \cup DOMAIN res |->
                                IF id \in DOMAIN res THEN res[id]
                                ELSE scrape_memo[id]]} :
                  \E enriched \in
                         {[i \in 1..Len(all_players) |->
                              IF all_players[i].id \in lookups
                                  THEN enrich_player(all_players[i], memo)
                              ELSE all_players[i]]} :
                    \E found \in {find_best_transfers(fixtures, my_team,
                                                      enriched, budget, m, t)} :
                        /\ now' = t
                        /\ lru_order' = lru_touch_all(lru_order, batch, 1)
                        /\ scrape_memo' = lru_kept(memo, lru_order')
                        /\ failed_scrapes' =
                               failed_scrapes
                                   \cup {id \in DOMAIN res : res[id] = None}
                        /\ all_players' = enriched
                        /\ events' =
                               events
                               \o (IF enrich_candidates /\ top_candidates # <<>>
                                       THEN <<EnrichPhase(
                                                  lookups,
                                                  {id \in lookups :
                                                       memo[id] # None})>>
                                   ELSE <<>>)
                               \o <<EvaluatePhase(
                                        evaluated_ids(fixtures, my_team,
                                                      enriched, budget, t))>>
                        /\ max_suggestions' = m
                        /\ budget_arg' = budget
                        /\ search_time' = t
                        /\ suggestions' = found
                        /\ IF found = <<>>
                               THEN outcome' = "empty" /\ formatted' = <<>>
                           ELSE IF \E i \in 1..Len(found) : FormatRaises(found[i])
                               THEN outcome' = "TypeError" /\ formatted' = <<>>
                           ELSE /\ outcome' = "ok"
                                /\ formatted' =
                                       _format_transfer_suggestions(found, budget)
    /\ UNCHANGED <<team_loaded, analysis, data_dir, difficulty_query,
                   score_query, my_team, team_money, fixtures, cost_query,
                   transfer_query, subject, eval_result>>

SuggestTransfers == calls < MaxCalls /\ DoSuggestTransfers

\* all_players[j].get_acquisition_cost()
GetAcquisitionCost ==
    \E j \in 1..Len(all_players) :
        /\ calls < MaxCalls
        /\ calls' = calls + 1
        /\ cost_query' = <<j, get_acquisition_cost(all_players[j])>>
        /\ UNCHANGED <<team_loaded, analysis, events, lru_order,
                       failed_scrapes,
                       data_dir, difficulty_query, score_query,
                       my_team, team_money, all_players, fixtures, now,
                       max_suggestions, budget_arg, suggestions, outcome,
                       formatted, scrape_memo, search_time, transfer_query,
                       subject, eval_result>>

Next ==
    \/ SuggestTransfers
    \/ GetAcquisitionCost

Spec == Init /\ [][Next]_vars

----------------------------------------------------------------------------
(* One player of the pool asked whether it can be transferred, at the      *)
(* time the clock shows.                                                   *)

\* the market and ownership fields in every combination
MarketSubjects ==
    { [Unlisted("s") EXCEPT !.is_on_market = on, !.sale_price = sale,
                            !.owned_by = owner, !.buyout_clause = clause,
                            !.buyout_locked_until = lock] :
        on \in BOOLEAN,
        sale \in {None, Some(3 * MILLION)},
        owner \in {None, Some("m2")},
        clause \in {None, Some(6 * MILLION)},
        lock \in {None} \cup {Some(t) : t \in Times} }

PlayerInit ==
    /\ subject \in MarketSubjects
    /\ fixtures = <<>>
    /\ eval_result = None
    /\ scrape_memo = <<>>
    /\ my_team = <<>>
    /\ team_money = None
    /\ all_players = <<>>
    /\ now = 1
    /\ max_suggestions = 0
    /\ budget_arg = RInt(0)
    /\ suggestions = <<>>
    /\ outcome = "none"
    /\ formatted = <<>>
    /\ search_time = 0
    /\ calls = 0
    /\ cost_query = <<>>
    /\ transfer_query = <<>>
    /\ data_dir = <<>>
    /\ difficulty_query = <<>>
    /\ score_query = None
    /\ team_loaded = FALSE
    /\ analysis = None
    /\ events = <<>>
    /\ lru_order = <<>>
    /\ failed_scrapes = {}

\* subject.is_transferable(t), t being the clock's reading
IsTransferable ==
    \E t \in Times :
        /\ calls < MaxCalls
        /\ calls' = calls + 1
        /\ t >= now
        /\ now' = t
        /\ transfer_query' = <<t, is_transferable(subject, t)>>
        /\ UNCHANGED <<team_loaded, analysis, events, lru_order,
                       failed_scrapes,
                       data_dir, difficulty_query, score_query,
                       my_team, team_money, all_players, fixtures,
                       max_suggestions, budget_arg, suggestions, outcome,
                       formatted, scrape_memo, search_time, cost_query,
                       subject, eval_result>>

PlayerNext == IsTransferable

PlayerSpec == PlayerInit /\ [][PlayerNext]_vars

----------------------------------------------------------------------------
(* One player handed to the evaluator: the scraper manager may enrich it,  *)
(* then evaluate_player scores it against the calendar.                    *)

Fixture2 ==
    [match_id |-> "m2", match_date |-> 2,
     home_team_id |-> "t3", home_team_name |-> "Getafe CF",
     away_team_id |-> "t1", away_team_name |-> "Real Madrid"]

Calendars == {<<>>, <<Fixture1, Fixture2>>}

SigRisky == ScrapedPlayerData(Some(6), Some(R(0, 1)), Some(5), Some("Alto"))

SigFringe == ScrapedPlayerData(Some(7), None, Some(1), None)

EvalSignals == {SigAbsent, SigStar, SigOwner, SigRisky, SigFringe}

EvalSubjects ==
    { [PlaysFor(Player("s", pos, avg, mins, mv, status, None), tid, tname)
          EXCEPT !.last_3_weeks = last3] :
        pos \in {3, 5},
        avg \in {RInt(0), RInt(5), RInt(12)},
        last3 \in {<<>>, <<2, 4, 9>>},
        mins \in {<<>>, FullMinutes, <<54, 54, 54>>, <<53, 54, 54>>},
        mv \in {0, 8 * MILLION},
        status \in {"ok", "injured"},
        <<tid, tname>> \in {<<"t1", "Real Madrid">>, <<"t2", "Valencia CF">>,
                            <<"t3", "Getafe CF">>} }

EvalInit ==
    /\ subject \in EvalSubjects
    /\ fixtures \in Calendars
    /\ eval_result = None
    /\ scrape_memo = <<>>
    /\ my_team = <<>>
    /\ team_money = None
    /\ all_players = <<>>
    /\ now = 1
    /\ max_suggestions = 0
    /\ budget_arg = RInt(0)
    /\ suggestions = <<>>
    /\ outcome = "none"
    /\ formatted = <<>>
    /\ search_time = 0
    /\ calls = 0
    /\ cost_query = <<>>
    /\ transfer_query = <<>>
    /\ data_dir = <<>>
    /\ difficulty_query = <<>>
    /\ score_query = None
    /\ team_loaded = FALSE
    /\ analysis = None
    /\ events = <<>>
    /\ lru_order = <<>>
    /\ failed_scrapes = {}

\* scraper_manager.enrich_player(subject): one lookup, whose result is kept
EnrichSubject ==
    /\ eval_result = None
    /\ DOMAIN scrape_memo = {}
    /\ subject.position_id # 5
    /\ \E got \in {None} \cup {Some(sig) : sig \in EvalSignals} :
           \E memo \in {[id \in {subject.id} |-> got]} :
               /\ scrape_memo' = memo
               /\ lru_order' = lru_touch(lru_order, subject.id)
               /\ failed_scrapes' =
                      IF got = None THEN {subject.id} ELSE failed_scrapes
               /\ subject' = enrich_player(subject, memo)
    /\ UNCHANGED <<team_loaded, analysis, events,
                   data_dir, difficulty_query, score_query,
                   my_team, team_money, all_players, fixtures, now,
                   max_suggestions, budget_arg, suggestions, outcome,
                   formatted, search_time, calls, cost_query, transfer_query,
                   eval_result>>

\* evaluator.evaluate_player(subject)
EvaluateSubject ==
    /\ eval_result = None
    /\ eval_result' = Some(evaluate_player(fixtures, subject))
    /\ UNCHANGED <<team_loaded, analysis, events, lru_order,
                   failed_scrapes,
                   data_dir, difficulty_query, score_query,
                   my_team, team_money, all_players, fixtures, now,
                   max_suggestions, budget_arg, suggestions, outcome,
                   formatted, scrape_memo, search_time, calls, cost_query,
                   transfer_query, subject>>

EvalNext == EnrichSubject \/ EvaluateSubject

EvalSpec == EvalInit /\ [][EvalNext]_vars

----------------------------------------------------------------------------
(* Properties of the transfer search, stated on the inputs and the list    *)
(* of the last search.                                                     *)

Searched == outcome # "none"

\* the owned players the search pairs up (coaches are skipped)
OwnedIdx == {i \in 1..Len(my_team) : my_team[i].position_id # 5}

NotOwned(p) == \A i \in 1..Len(my_team) : my_team[i].id # p.id

Fit(p) == p.player_status = "ok"

\* on the market, or holding a buyout lock that expired before t
TransferableAt(p, t) ==
    \/ p.is_on_market
    \/ (p.buyout_locked_until # None /\ p.buyout_locked_until[1] < t)

EligibleIdx ==
    {j \in 1..Len(all_players) :
        /\ NotOwned(all_players[j])
        /\ Fit(all_players[j])
        /\ TransferableAt(all_players[j], search_time)}

TotalScore(p) == evaluate_player(fixtures, p).total_score

PairNet(i, j) ==
    SubQ(get_acquisition_cost(all_players[j]),
         R(my_team[i].market_value, MILLION))

PairImprovement(i, j) ==
    SubQ(TotalScore(all_players[j]), TotalScore(my_team[i]))

\* proposal k pairs owned player i with pool player j
Pairs(k, i, j) ==
    /\ suggestions[k].player_out = my_team[i]
    /\ suggestions[k].player_in = all_players[j]

(* C1: every proposal returned by find_best_transfers has net_cost equal   *)
(* to the acquisition cost of the incoming player minus the market value   *)
(* in millions of the outgoing player, and net_cost <= the budget passed.  *)
C1_NetCostWithinBudget ==
    \A k \in 1..Len(suggestions) :
        /\ suggestions[k].net_cost =
               SubQ(get_acquisition_cost(suggestions[k].player_in),
                    R(suggestions[k].player_out.market_value, MILLION))
        /\ ~LtQ(budget_arg, suggestions[k].net_cost)

\* a search returned a proposal while leaving out an eligible pair with a
\* significant improvement whose net cost exceeds the budget
C1_Witness ==
    /\ Searched
    /\ suggestions # <<>>
    /\ \E i \in OwnedIdx, j \in EligibleIdx :
           /\ LtQ(budget_arg, PairNet(i, j))
           /\ LtQ(RInt(3), PairImprovement(i, j))

(* C2: every incoming player of a proposal has an id that no owned player  *)
(* has, has availability status "ok", and is transferable at the search    *)
(* time (on the market, or its buyout lock expired before the search).     *)
C2_IncomingEligible ==
    \A k \in 1..Len(suggestions) :
        /\ NotOwned(suggestions[k].player_in)
        /\ Fit(suggestions[k].player_in)
        /\ TransferableAt(suggestions[k].player_in, search_time)

\* a proposal brings in a player through an expired buyout lock while the
\* pool also holds an unavailable player and a player with an owned id
C2_Witness ==
    /\ Searched
    /\ \E k \in 1..Len(suggestions) : ~suggestions[k].player_in.is_on_market
    /\ \E j \in 1..Len(all_players) : ~Fit(all_players[j])
    /\ \E j \in 1..Len(all_players) : ~NotOwned(all_players[j])

(* C3: every proposal has improvement = incoming total score - outgoing    *)
(* total score, strictly greater than 3; an eligible pair within budget    *)
(* whose improvement is 3 or less is not proposed.                         *)
C3_ImprovementAboveThreshold ==
    /\ \A k \in 1..Len(suggestions) :
           /\ suggestions[k].improvement =
                  SubQ(TotalScore(suggestions[k].player_in),
                       TotalScore(suggestions[k].player_out))
           /\ LtQ(RInt(3), suggestions[k].improvement)
    /\ \A i \in OwnedIdx, j \in EligibleIdx :
           (~LtQ(budget_arg, PairNet(i, j))
                /\ ~LtQ(RInt(3), PairImprovement(i, j)))
               => \A k \in 1..Len(suggestions) : ~Pairs(k, i, j)

\* a search met an eligible pair within budget whose improvement is
\* exactly 3
C3_Witness ==
    /\ Searched
    /\ \E i \in OwnedIdx, j \in EligibleIdx :
           /\ ~LtQ(budget_arg, PairNet(i, j))
           /\ PairImprovement(i, j) = RInt(3)

\* the total scores of the roster and of the pool, by position in the list
TeamScores == [i \in 1..Len(my_team) |-> TotalScore(my_team[i])]

PoolScores == [j \in 1..Len(all_players) |-> TotalScore(all_players[j])]

\* improvement / max(|net cost|, 1/10) of owned player i against pool
\* player j, given the scores ts of the roster and ps of the pool
RatioOf(ts, ps, i, j) ==
    DivQ(SubQ(ps[j], ts[i]), MaxQ(AbsQ(PairNet(i, j)), <<1, 10>>))

\* the pairs a search accepts: an eligible candidate, a net cost within the
\* budget, an improvement above 3
AcceptedWith(ts, ps) ==
    {pr \in OwnedIdx \X EligibleIdx :
        /\ ~LtQ(budget_arg, PairNet(pr[1], pr[2]))
        /\ LtQ(RInt(3), SubQ(ps[pr[2]], ts[pr[1]]))}

\* pair a is enumerated before pair b: roster order outermost, pool order
\* innermost
EnumBefore(a, b) == a[1] < b[1] \/ (a[1] = b[1] /\ a[2] < b[2])

\* pair a stands before pair b in the full sorted list
SortsBefore(ts, ps, a, b) ==
    \/ LtQ(RatioOf(ts, ps, b[1], b[2]), RatioOf(ts, ps, a[1], a[2]))
    \/ /\ RatioOf(ts, ps, a[1], a[2]) = RatioOf(ts, ps, b[1], b[2])
       /\ EnumBefore(a, b)

\* the place of pair a in the full sorted list of the accepted pairs acc
RankIn(ts, ps, acc, a) ==
    1 + Cardinality({b \in acc : SortsBefore(ts, ps, b, a)})

SortedTruncated(ts, ps, acc) ==
    /\ Len(suggestions) <= max_suggestions
    /\ Len(suggestions) =
           IF Cardinality(acc) < max_suggestions THEN Cardinality(acc)
           ELSE max_suggestions
    /\ \A k \in 1..Len(suggestions) :
           \E a \in acc : RankIn(ts, ps, acc, a) = k /\ Pairs(k, a[1], a[2])
    /\ \A k \in 1..(Len(suggestions) - 1) :
           ~LtQ(suggestions[k].value_ratio, suggestions[k + 1].value_ratio)
    /\ \A a \in acc :
           (\A k \in 1..Len(suggestions) : ~Pairs(k, a[1], a[2]))
               => \A k \in 1..Len(suggestions) :
                      ~LtQ(suggestions[k].value_ratio,
                           RatioOf(ts, ps, a[1], a[2]))
    /\ acc = {} => (suggestions = <<>> /\ outcome = "empty")

(* C4: the list a search returns has at most max_suggestions entries, is   *)
(* ordered by value ratio non-increasing, keeps pairs of equal ratio in    *)
(* enumeration order, and is the first max_suggestions entries of the full *)
(* sorted list of accepted pairs (entry k is the accepted pair of rank k;  *)
(* no accepted pair left out has a higher ratio than a returned one); with *)
(* no accepted pair the result is the empty list and no error.             *)
C4_SortedTruncated ==
    Searched =>
        \A ts \in {TeamScores}, ps \in {PoolScores} :
            \A acc \in {AcceptedWith(ts, ps)} : SortedTruncated(ts, ps, acc)

\* a search accepted more pairs than it may return, returned two pairs of
\* equal ratio, and put a pair in front of a pair enumerated earlier
C4_Witness ==
    /\ Searched
    /\ Len(suggestions) >= 2
    /\ suggestions[1].value_ratio = suggestions[2].value_ratio
    /\ \A ts \in {TeamScores}, ps \in {PoolScores} :
           \A acc \in {AcceptedWith(ts, ps)} :
               /\ Cardinality(acc) > max_suggestions
               /\ \E a \in acc, b \in acc :
                      EnumBefore(a, b) /\ SortsBefore(ts, ps, b, a)

\* the scenario of the specification: budget 5, an owned player valued 8
\* scoring 40, an eligible on-market candidate priced 10 scoring 46
Scenario(i, j) ==
    /\ budget_arg = RInt(5)
    /\ my_team[i].market_value = 8 * MILLION
    /\ all_players[j].is_on_market
    /\ get_acquisition_cost(all_players[j]) = RInt(10)
    /\ TotalScore(my_team[i]) = RInt(40)
    /\ TotalScore(all_players[j]) = RInt(46)

\* proposal k is the scenario's pair with net cost 2, improvement 6 and
\* value ratio 3
ScenarioProposal(k, i, j) ==
    /\ Pairs(k, i, j)
    /\ suggestions[k].net_cost = RInt(2)
    /\ suggestions[k].improvement = RInt(6)
    /\ suggestions[k].value_ratio = RInt(3)

(* C5: every proposal carries value_ratio = improvement / max(|net_cost|,  *)
(* 1/10); with budget 5, an owned player valued 8 scoring 40 and an        *)
(* on-market candidate priced 10 scoring 46 the pair is accepted with net  *)
(* cost 2, improvement 6 and value ratio 3 (it is in the list unless       *)
(* max_suggestions pairs of ratio 3 or more fill it).                      *)
C5_ValueRatio ==
    /\ \A k \in 1..Len(suggestions) :
           suggestions[k].value_ratio =
               DivQ(suggestions[k].improvement,
                    MaxQ(AbsQ(suggestions[k].net_cost), <<1, 10>>))
    /\ Searched =>
           \A i \in OwnedIdx, j \in EligibleIdx :
               Scenario(i, j) =>
                   \/ \E k \in 1..Len(suggestions) : ScenarioProposal(k, i, j)
                   \/ /\ Len(suggestions) = max_suggestions
                      /\ \A k \in 1..Len(suggestions) :
                             ~LtQ(suggestions[k].value_ratio, RInt(3))

\* a search proposed the scenario's pair, and a pair of negative net cost
C5_Witness ==
    /\ Searched
    /\ \E i \in OwnedIdx, j \in EligibleIdx :
           /\ Scenario(i, j)
           /\ \E k \in 1..Len(suggestions) : ScenarioProposal(k, i, j)
    /\ \E k \in 1..Len(suggestions) : LtQ(suggestions[k].net_cost, RInt(0))

\* the player and the cost of the last get_acquisition_cost call
Queried == all_players[cost_query[1]]

\* a sale price that counts: the player is listed and the price is not zero
HasSale(p) ==
    p.is_on_market /\ p.sale_price # None /\ p.sale_price[1] # 0

\* a buyout clause that counts: recorded and not zero
HasClause(p) == p.buyout_clause # None /\ p.buyout_clause[1] # 0

(* C6 as stated: get_acquisition_cost returns the sale price in millions   *)
(* for every player on the market, the buyout clause in millions for a     *)
(* player not on the market, and an infinite cost exactly when neither a   *)
(* sale price nor a buyout clause is present.                              *)
C6_AsStated ==
    cost_query # <<>> =>
        /\ (Queried.is_on_market /\ Queried.sale_price # None)
               => cost_query[2] = R(Queried.sale_price[1], MILLION)
        /\ (~Queried.is_on_market /\ Queried.buyout_clause # None)
               => cost_query[2] = R(Queried.buyout_clause[1], MILLION)
        /\ IsInf(cost_query[2])
               <=> (Queried.sale_price = None /\ Queried.buyout_clause = None)

(* C6: get_acquisition_cost returns the sale price in millions when the    *)
(* player is on the market with a non-zero sale price, otherwise the       *)
(* buyout clause in millions when a non-zero clause is recorded, otherwise *)
(* an infinite cost: the cost is infinite exactly when the player has      *)
(* neither a non-zero sale price while listed nor a non-zero clause, even  *)
(* if a sale price is recorded for an unlisted player. No proposal brings  *)
(* in a player of infinite cost.                                           *)
C6_AcquisitionCost ==
    /\ cost_query # <<>> =>
           /\ HasSale(Queried)
                  => cost_query[2] = R(Queried.sale_price[1], MILLION)
           /\ (~HasSale(Queried) /\ HasClause(Queried))
                  => cost_query[2] = R(Queried.buyout_clause[1], MILLION)
           /\ IsInf(cost_query[2])
                  <=> (~HasSale(Queried) /\ ~HasClause(Queried))
    /\ \A k \in 1..Len(suggestions) :
           /\ ~IsInf(suggestions[k].acquisition_cost)
           /\ HasSale(suggestions[k].player_in)
                  \/ HasClause(suggestions[k].player_in)

\* the cost was asked of an unlisted player with a sale price recorded and
\* no buyout clause, and came back infinite
C6_Witness ==
    /\ cost_query # <<>>
    /\ ~Queried.is_on_market
    /\ Queried.sale_price # None
    /\ Queried.buyout_clause = None
    /\ IsInf(cost_query[2])

(* C7: is_transferable(t) is true if and only if the player is on the      *)
(* market or has a buyout lock expiry strictly earlier than t; a player    *)
(* not on the market and without a lock expiry is never transferable,      *)
(* whatever its owner or buyout clause.                                    *)
C7_Transferable ==
    transfer_query # <<>> =>
        /\ transfer_query[2] <=>
               \/ subject.is_on_market
               \/ /\ subject.buyout_locked_until # None
                  /\ subject.buyout_locked_until[1] < transfer_query[1]
        /\ (~subject.is_on_market /\ subject.buyout_locked_until = None)
               => ~transfer_query[2]

\* an owned player with a buyout clause, off the market and without a lock
\* expiry, was found not transferable
C7_Witness ==
    /\ transfer_query # <<>>
    /\ ~subject.is_on_market
    /\ subject.buyout_locked_until = None
    /\ subject.owned_by # None
    /\ subject.buyout_clause # None
    /\ ~transfer_query[2]

\* the sum of the seven sub-scores an evaluation exposes
PrePenalty(e) ==
    AddQ(AddQ(AddQ(AddQ(AddQ(AddQ(e.form_score, e.fixture_score),
                             e.ppg_score), e.value_score),
                   e.jerarquia_score), e.probability_score), e.injury_score)

\* the average of the minutes recorded, over 90 and capped at 1, is below
\* 3/5; without minutes recorded the reliability is 1/2
LowMinutes(p) ==
    \/ p.minutes_last_3 = <<>>
    \/ 5 * SumSeq(p.minutes_last_3) < 3 * 90 * Len(p.minutes_last_3)

Unfit(p) == p.player_status # "ok"

(* C8: the total score of an evaluation is the sum of its seven sub-scores *)
(* multiplied by 7/10 when minutes reliability is below 3/5 and by 1/2     *)
(* when the status is not "ok": 7/20 of the sum for a player failing both, *)
(* the sum itself for a player failing neither.                            *)
C8_PenaltiesCompose ==
    eval_result # None =>
        \A pre \in {PrePenalty(eval_result[1])} :
            /\ eval_result[1].total_score =
                   MulQ(MulQ(pre, IF LowMinutes(subject) THEN <<7, 10>>
                                  ELSE RInt(1)),
                        IF Unfit(subject) THEN <<1, 2>> ELSE RInt(1))
            /\ (LowMinutes(subject) /\ Unfit(subject))
                   => eval_result[1].total_score = MulQ(pre, <<7, 20>>)
            /\ (~LowMinutes(subject) /\ ~Unfit(subject))
                   => eval_result[1].total_score = pre

\* an unavailable player with unreliable minutes was evaluated to a
\* positive score
C8_Witness ==
    /\ eval_result # None
    /\ LowMinutes(subject)
    /\ subject.minutes_last_3 # <<>>
    /\ Unfit(subject)
    /\ LtQ(RInt(0), eval_result[1].total_score)

\* no signal attached, or a signal whose four fields are all absent
NoSignal(p) ==
    \/ p.scraped_data = None
    \/ /\ p.scraped_data[1].jerarquia = None
       /\ p.scraped_data[1].play_probability = None
       /\ p.scraped_data[1].form_arrow = None
       /\ p.scraped_data[1].injury_risk = None

(* C9: for a player without a scraped signal, or with a signal whose four  *)
(* fields are absent, evaluate_player returns a record with the neutral    *)
(* defaults: form score = 15 * min(form / 10, 1) + 5, hierarchy 15/2, play probability 7,    *)
(* injury 7/2, and the four raw scraped fields absent.                     *)
C9_NeutralDefaults ==
    (eval_result # None /\ NoSignal(subject)) =>
        /\ eval_result[1].form_score =
               AddQ(MulQ(MinQ(DivQ(eval_result[1].form, RInt(10)), RInt(1)),
                         RInt(15)),
                    RInt(5))
        /\ eval_result[1].jerarquia_score = <<15, 2>>
        /\ eval_result[1].probability_score = RInt(7)
        /\ eval_result[1].injury_score = <<7, 2>>
        /\ eval_result[1].scraped_jerarquia = None
        /\ eval_result[1].scraped_probability = None
        /\ eval_result[1].scraped_form_arrow = None
        /\ eval_result[1].scraped_injury_risk = None

\* a player was looked up, no signal was found, and it was evaluated
C9_Witness ==
    /\ eval_result # None
    /\ DOMAIN scrape_memo # {}
    /\ subject.scraped_data = None

\* the four raw scraped fields of an evaluation record are absent
RawAbsent(e) ==
    /\ e.scraped_jerarquia = None
    /\ e.scraped_probability = None
    /\ e.scraped_form_arrow = None
    /\ e.scraped_injury_risk = None

(* C10: suggest_transfers never fails because a scraped field is absent:   *)
(* whenever the search yields a proposal whose outgoing or incoming player *)
(* has no scraped signal, formatting completes and shows the placeholder   *)
(* "N/A" for the absent fields.                                            *)
C10_AbsentFieldsFormatted ==
    \A k \in 1..Len(suggestions) :
        /\ RawAbsent(suggestions[k].player_out_eval)
               => /\ outcome = "ok"
                  /\ formatted[k].out_jerarquia = NA
                  /\ formatted[k].out_prob = NA
        /\ RawAbsent(suggestions[k].player_in_eval)
               => /\ outcome = "ok"
                  /\ formatted[k].in_jerarquia = NA
                  /\ formatted[k].in_prob = NA
                  /\ formatted[k].in_form = NA
                  /\ formatted[k].in_risk = NA

----------------------------------------------------------------------------
(* Properties of the hierarchy sub-score.                                  *)

\* the scraped hierarchy rank of the evaluated player, when one counts
RankOf(p) ==
    IF p.scraped_data # None /\ TruthyInt(p.scraped_data[1].jerarquia)
        THEN p.scraped_data[1].jerarquia
    ELSE None

(* C11 as stated: with a scraped rank r the hierarchy sub-score is linear  *)
(* in r, rank 1 giving the full weight 15 and rank 6 giving exactly 0;     *)
(* without a rank it is 15/2.                                              *)
C11_AsStated ==
    eval_result # None =>
        eval_result[1].jerarquia_score =
            IF RankOf(subject) = None THEN <<15, 2>>
            ELSE R(15 * (6 - RankOf(subject)[1]), 5)

(* C11: with a scraped rank r the hierarchy sub-score is 15 * (7 - r) / 6: *)
(* linear in r, rank 1 giving the full weight 15, rank 6 giving 5/2 and    *)
(* rank 7 giving 0; without a rank it is the half-weight default 15/2.     *)
C11_HierarchyLinear ==
    eval_result # None =>
        /\ eval_result[1].jerarquia_score =
               IF RankOf(subject) = None THEN <<15, 2>>
               ELSE R(15 * (7 - RankOf(subject)[1]), 6)
        /\ RankOf(subject) = Some(1)
               => eval_result[1].jerarquia_score = RInt(15)
        /\ RankOf(subject) = Some(6)
               => eval_result[1].jerarquia_score = <<5, 2>>
        /\ RankOf(subject) = Some(7)
               => eval_result[1].jerarquia_score = RInt(0)

\* a player of rank 6 was evaluated to a hierarchy sub-score of 5/2
C11_Witness ==
    /\ eval_result # None
    /\ RankOf(subject) = Some(6)
    /\ eval_result[1].jerarquia_score = <<5, 2>>

----------------------------------------------------------------------------
(* The fixture analyzer asked about one team: the list of its next         *)
(* fixtures, and the fixture score of one of its players.                  *)

MaxFixtures == 3

MaxHorizon == 3

\* team t1 at home against team t2
Fixture3 ==
    [match_id |-> "m3", match_date |-> 3,
     home_team_id |-> "t1", home_team_name |-> "Real Madrid",
     away_team_id |-> "t2", away_team_name |-> "Valencia CF"]

\* team t2 at home against a team without a strength rating
Fixture4 ==
    [match_id |-> "m4", match_date |-> 4,
     home_team_id |-> "t2", home_team_name |-> "Valencia CF",
     away_team_id |-> "t4", away_team_name |-> "Elche CF"]

FixturePool == {Fixture1, Fixture2, Fixture3, Fixture4}

\* the calendars of at most MaxFixtures fixtures
FixtureCalendars ==
    UNION {[1..n -> FixturePool] : n \in 0..MaxFixtures}

FixtureSubjects ==
    { PlaysFor(Unlisted("s"), tid, tname) :
        <<tid, tname>> \in {<<"t1", "Real Madrid">>, <<"t2", "Valencia CF">>,
                            <<"t3", "Getafe CF">>} }

FixtureInit ==
    /\ fixtures \in FixtureCalendars
    /\ subject \in FixtureSubjects
    /\ eval_result = None
    /\ scrape_memo = <<>>
    /\ my_team = <<>>
    /\ team_money = None
    /\ all_players = <<>>
    /\ now = 1
    /\ max_suggestions = 0
    /\ budget_arg = RInt(0)
    /\ suggestions = <<>>
    /\ outcome = "none"
    /\ formatted = <<>>
    /\ search_time = 0
    /\ calls = 0
    /\ cost_query = <<>>
    /\ transfer_query = <<>>
    /\ data_dir = <<>>
    /\ difficulty_query = <<>>
    /\ score_query = None
    /\ team_loaded = FALSE
    /\ analysis = None
    /\ events = <<>>
    /\ lru_order = <<>>
    /\ failed_scrapes = {}

\* fixture_analyzer.get_fixture_difficulty(team_id, team_name, n)
GetFixtureDifficulty ==
    \E n \in 1..MaxHorizon :
        /\ difficulty_query = <<>>
        /\ difficulty_query' =
               <<n, get_fixture_difficulty(fixtures, subject.team_id, n)>>
        /\ UNCHANGED <<team_loaded, analysis, events, lru_order,
                       failed_scrapes,
                       my_team, team_money, all_players, fixtures, now,
                       max_suggestions, budget_arg, suggestions, outcome,
                       formatted, scrape_memo, search_time, calls, cost_query,
                       transfer_query, subject, eval_result, data_dir,
                       score_query>>

\* fixture_analyzer.calculate_fixture_score(subject)
CalculateFixtureScore ==
    /\ score_query = None
    /\ score_query' = Some(calculate_fixture_score(fixtures, subject, 3))
    /\ UNCHANGED <<team_loaded, analysis, events, lru_order,
                   failed_scrapes,
                   my_team, team_money, all_players, fixtures, now,
                   max_suggestions, budget_arg, suggestions, outcome,
                   formatted, scrape_memo, search_time, calls, cost_query,
                   transfer_query, subject, eval_result, data_dir,
                   difficulty_query>>

FixtureNext == GetFixtureDifficulty \/ CalculateFixtureScore

FixtureSpec == FixtureInit /\ [][FixtureNext]_vars

----------------------------------------------------------------------------
(* Properties of the fixture analyzer, stated on the calendar, the team    *)
(* asked about and the results returned.                                   *)

Involves(f, team_id) == f.home_team_id = team_id \/ f.away_team_id = team_id

\* the calendar positions of the fixtures of the subject's team
Matching == {i \in 1..Len(fixtures) : Involves(fixtures[i], subject.team_id)}

\* the calendar position of the k-th fixture of the subject's team
KthMatch(k) ==
    CHOOSE i \in Matching : Cardinality({j \in Matching : j <= i}) = k

Smaller(a, b) == IF a < b THEN a ELSE b

\* the team of fixture f that is not the subject's
OtherSide(f) ==
    IF f.home_team_id = subject.team_id THEN f.away_team_name
    ELSE f.home_team_name

AtHome(f) == f.home_team_id = subject.team_id

\* entry e of a result describes fixture f as seen by the subject's team
DescribesFixture(e, f) ==
    /\ e.opponent = OtherSide(f)
    /\ e.is_home = AtHome(f)
    /\ e.date = f.match_date
    /\ ~LtQ(e.difficulty, RInt(1))
    /\ ~LtQ(RInt(5), e.difficulty)

(* C12: for every calendar, team and horizon n >= 1 the list returned by   *)
(* get_fixture_difficulty has at most n entries and is exactly the first n *)
(* calendar fixtures, in calendar order, in which the team is the home or  *)
(* the away side, each with the other side as opponent, the home/away flag *)
(* and a difficulty within [1, 5]; other fixtures are skipped.             *)
C12_FirstMatchingFixtures ==
    difficulty_query # <<>> =>
        /\ Len(difficulty_query[2]) <= difficulty_query[1]
        /\ Len(difficulty_query[2]) =
               Smaller(difficulty_query[1], Cardinality(Matching))
        /\ \A k \in 1..Len(difficulty_query[2]) :
               DescribesFixture(difficulty_query[2][k], fixtures[KthMatch(k)])

\* a query skipped a fixture of other teams, collected a later fixture of
\* the team and stopped at the horizon with a fixture of the team left
C12_Witness ==
    /\ difficulty_query # <<>>
    /\ Cardinality(Matching) > difficulty_query[1]
    /\ Len(difficulty_query[2]) = difficulty_query[1]
    /\ \E i \in 1..Len(fixtures) : i \notin Matching /\ i < KthMatch(1)

\* (attack + defense) / 2 of a team, by its name
Rating(name) ==
    IF name \in DOMAIN TEAM_STRENGTHS
        THEN R(TEAM_STRENGTHS[name][1] + TEAM_STRENGTHS[name][2], 20)
    ELSE R(DEFAULT_STRENGTH[1] + DEFAULT_STRENGTH[2], 20)

(* C13: a stronger opponent yields a higher difficulty: for two entries of *)
(* a result with the same home/away flag, the opponent whose average of    *)
(* attack and defense is at least the other's has a difficulty at least    *)
(* the other's.                                                            *)
C13_StrongerIsHarder ==
    difficulty_query # <<>> =>
        \A a \in 1..Len(difficulty_query[2]),
           b \in 1..Len(difficulty_query[2]) :
            (/\ difficulty_query[2][a].is_home = difficulty_query[2][b].is_home
             /\ ~LtQ(Rating(difficulty_query[2][a].opponent),
                     Rating(difficulty_query[2][b].opponent)))
                => ~LtQ(difficulty_query[2][a].difficulty,
                        difficulty_query[2][b].difficulty)

\* x brought into [1, 5]
Clamp(x) ==
    IF LtQ(x, RInt(1)) THEN RInt(1)
    ELSE IF LtQ(RInt(5), x) THEN RInt(5) ELSE x

\* 6 - rating of the opponent, less 1/2 at home, plus 1/5 away, in [1, 5]
ExpectedDifficulty(opponent, is_home) ==
    Clamp(AddQ(SubQ(RInt(6), Rating(opponent)),
               IF is_home THEN <<-1, 2>> ELSE <<1, 5>>))

\* the calendar holds one fixture, with the subject's team at home
SoleHomeFixture ==
    /\ Len(fixtures) = 1
    /\ fixtures[1].home_team_id = subject.team_id
    /\ fixtures[1].away_team_id # subject.team_id

\* fixture f with its two sides exchanged
Mirror(f) ==
    [f EXCEPT !.home_team_id = f.away_team_id,
              !.home_team_name = f.away_team_name,
              !.away_team_id = f.home_team_id,
              !.away_team_name = f.home_team_name]

\* the fixture score of the subject had its only fixture been played away
MirroredScore == calculate_fixture_score(<<Mirror(fixtures[1])>>, subject, 3)

(* C14 as stated: for a calendar holding one fixture of the player's team, *)
(* the fixture score with the team at home is strictly greater than the    *)
(* score with the team away against the same opponent.                     *)
C14_AsStated ==
    (score_query # None /\ SoleHomeFixture)
        => LtQ(MirroredScore, score_query[1])

(* C14: for a calendar holding one fixture of the player's team, the       *)
(* fixture score with the team at home is strictly lower than the score    *)
(* with the team away against the same opponent: it is twice the           *)
(* difficulty, which is 6 - rating less 1/2 at home and plus 1/5 away,     *)
(* brought into [1, 5].                                                    *)
C14_HomeEasier ==
    (score_query # None /\ SoleHomeFixture) =>
        /\ LtQ(score_query[1], MirroredScore)
        /\ score_query[1] =
               MulQ(RInt(2),
                    ExpectedDifficulty(fixtures[1].away_team_name, TRUE))
        /\ MirroredScore =
               MulQ(RInt(2),
                    ExpectedDifficulty(fixtures[1].away_team_name, FALSE))

\* the score of a player whose team plays its only fixture at home
C14_Witness ==
    /\ score_query # None
    /\ SoleHomeFixture
    /\ LtQ(score_query[1], MirroredScore)

\* 1.0, 0.8, 0.6 for the first, second and third fixture
RecencyWeight(k) == R(6 - k, 5)

\* the sum over the first k fixtures of the team of weight * 2 * difficulty
RECURSIVE ExpectedWeightedSum(_)
ExpectedWeightedSum(k) ==
    IF k = 0 THEN RInt(0)
    ELSE AddQ(ExpectedWeightedSum(k - 1),
              MulQ(RecencyWeight(k),
                   MulQ(RInt(2),
                        ExpectedDifficulty(OtherSide(fixtures[KthMatch(k)]),
                                           AtHome(fixtures[KthMatch(k)])))))

RECURSIVE WeightTotal(_)
WeightTotal(k) ==
    IF k = 0 THEN RInt(0) ELSE AddQ(WeightTotal(k - 1), RecencyWeight(k))

(* C16: calculate_fixture_score returns exactly 5 when the calendar holds  *)
(* no fixture of the player's team, and otherwise the weighted average of  *)
(* 2 x difficulty over the first three fixtures of the team with weights   *)
(* 1, 4/5, 3/5 in calendar order, normalised by the sum of the weights     *)
(* used; the value lies in [2, 10].                                        *)
C16_WeightedAverage ==
    score_query # None =>
        /\ Matching = {} => score_query[1] = RInt(5)
        /\ Matching # {} =>
               \A n \in {Smaller(3, Cardinality(Matching))} :
                   score_query[1] =
                       DivQ(ExpectedWeightedSum(n), WeightTotal(n))
        /\ ~LtQ(score_query[1], RInt(2))
        /\ ~LtQ(RInt(10), score_query[1])

\* a score over two fixtures of the team, of different difficulty, in a
\* calendar that also holds a fixture of other teams
C16_Witness ==
    /\ score_query # None
    /\ Cardinality(Matching) = 2
    /\ Len(fixtures) = 3
    /\ AtHome(fixtures[KthMatch(1)]) # AtHome(fixtures[KthMatch(2)])

\* the fixtures sub-score of the subject under an empty calendar, where
\* the fixture score is the neutral 5
NeutralFixtureScore == _calculate_fixture_score(<<>>, subject)

(* C15: the fixtures sub-score of evaluate_player decreases with the       *)
(* fixture score (above the neutral sub-score for a fixture score below 5, *)
(* below it for one above 5) and lies within [0, 20], the fixtures weight, *)
(* for every fixture score calculate_fixture_score returns.                *)
C15_FixturesWithinWeight ==
    eval_result # None =>
        /\ ~LtQ(eval_result[1].fixture_score, RInt(0))
        /\ ~LtQ(RInt(20), eval_result[1].fixture_score)
        /\ LtQ(eval_result[1].fixtures, RInt(5))
               => LtQ(NeutralFixtureScore, eval_result[1].fixture_score)
        /\ LtQ(RInt(5), eval_result[1].fixtures)
               => LtQ(eval_result[1].fixture_score, NeutralFixtureScore)

----------------------------------------------------------------------------
(* DataLoader (src/fantasy_agent.py:290-511)                               *)
(* data_dir is a record [players, market, equipos]: three directories,     *)
(* each a set of files [name, content]. A file name is a record            *)
(* [prefix, date], standing for "<prefix>_<date>.json"; in equipos the     *)
(* prefix is the manager's name. File contents are the parsed JSON.        *)

\* the prefixes of the file names of the model, in string order
PREFIX_ORDER == <<"ana", "market", "players", "zoe">>

PrefixRank(prefix) ==
    CHOOSE i \in 1..Len(PREFIX_ORDER) : PREFIX_ORDER[i] = prefix

\* the order sorted() puts two paths "<prefix>_<date>.json" in
name_less(a, b) ==
    \/ PrefixRank(a.prefix) < PrefixRank(b.prefix)
    \/ (a.prefix = b.prefix /\ a.date < b.date)

\* sorted(files, reverse=True)[0]
first_reversed(files) ==
    CHOOSE f \in files : \A g \in files : g = f \/ name_less(g.name, f.name)

\* directory.glob(f"{prefix}*.json")
glob_prefix(directory, prefix) == {f \in directory : f.name.prefix = prefix}

load_latest_file(directory, prefix) ==
    IF glob_prefix(directory, prefix) = {} THEN None
    ELSE Some(first_reversed(glob_prefix(directory, prefix)).content)

\* latest.split("_")[1].split(".")[0] of the first file in reverse order
load_latest_date(directory) ==
    IF directory = {} THEN None
    ELSE Some(first_reversed(directory).name.date)

\* int() of the strings found in the snapshots
INT_OF ==
    ("0" :> 0) @@ ("1" :> 1) @@ ("3" :> 3) @@ ("5" :> 5) @@ ("12" :> 12) @@
    ("8000000" :> 8000000) @@ ("10000000" :> 10000000)

\* p.get(key, default) for a key held as an Optional
get_or(o, default) == IF o = None THEN default ELSE o[1]

\* the base object already listed on the market
new_player_Listed(p) ==
    [id |-> p.id, nickname |-> p.nickname,
     position_id |-> INT_OF[p.positionId],
     team_id |-> p.team.id, team_name |-> p.team.name,
     points |-> get_or(p.points, 0),
     average_points |-> get_or(p.averagePoints, RInt(0)),
     last_season_points |->
         IF TruthyStr(p.lastSeasonPoints)
             THEN Some(INT_OF[p.lastSeasonPoints[1]])
         ELSE None,
     market_value |-> INT_OF[get_or(p.marketValue, "0")],
     player_status |-> get_or(p.playerStatus, "ok"),
     last_3_weeks |-> <<>>, minutes_last_3 |-> <<>>,
     is_on_market |-> TRUE, owned_by |-> None, buyout_clause |-> None,
     buyout_locked_until |-> None, sale_price |-> None,
     scraped_data |-> None]

\* Player(...) as load_all_players builds it from an entry of the global list
new_player(p) ==
    [id |-> p.id, nickname |-> p.nickname,
     position_id |-> INT_OF[p.positionId],
     team_id |-> p.team.id, team_name |-> p.team.name,
     points |-> get_or(p.points, 0),
     average_points |-> get_or(p.averagePoints, RInt(0)),
     last_season_points |->
         IF TruthyStr(p.lastSeasonPoints)
             THEN Some(INT_OF[p.lastSeasonPoints[1]])
         ELSE None,
     market_value |-> INT_OF[get_or(p.marketValue, "0")],
     player_status |-> get_or(p.playerStatus, "ok"),
     last_3_weeks |-> <<>>, minutes_last_3 |-> <<>>,
     is_on_market |-> FALSE, owned_by |-> None, buyout_clause |-> None,
     buyout_locked_until |-> None, sale_price |-> None,
     scraped_data |-> None]

\* every market entry listing its player, whatever its type
market_step_AlwaysListed(players, market_entry) ==
    [i \in 1..Len(players) |->
        IF players[i].id # market_entry.playerMaster.id THEN players[i]
        ELSE [players[i] EXCEPT !.is_on_market = TRUE,
                                !.sale_price = market_entry.salePrice]]

\* the loop body of _enrich_market_data for one market entry
market_step(players, market_entry) ==
    [i \in 1..Len(players) |->
        IF players[i].id # market_entry.playerMaster.id THEN players[i]
        ELSE [players[i] EXCEPT
                 !.is_on_market =
                     IF market_entry.discr # "marketPlayerTeam" THEN TRUE
                     ELSE @,
                 !.sale_price = market_entry.salePrice]]

\* players after the market entries from position k on are handled
RECURSIVE MarketLoop(_, _, _)
MarketLoop(players, market_data, k) ==
    IF k > Len(market_data) THEN players
    ELSE MarketLoop(market_step(players, market_data[k]), market_data, k + 1)

_enrich_market_data(players, market_dir) ==
    The({IF market_data = None \/ market_data[1] = <<>> THEN players
         ELSE MarketLoop(players, market_data[1], 1) :
            market_data \in {load_latest_file(market_dir, "market")}})

\* datetime.fromisoformat of the timestamps that parse; any other string
\* raises ValueError
ISO_TIMES == ("2025-01-01T00:00:00" :> 1) @@ ("2025-01-02T00:00:00" :> 2)

\* a roster entry whose lock timestamp does not parse left out altogether
ownership_step_SkipUnparsed(players, manager_name, p) ==
    [i \in 1..Len(players) |->
        IF players[i].id # p.playerMaster.id THEN players[i]
        ELSE IF TruthyStr(p.buyoutClauseLockedEndTime)
                /\ p.buyoutClauseLockedEndTime[1] \notin DOMAIN ISO_TIMES
            THEN players[i]
        ELSE [players[i] EXCEPT
                 !.owned_by = Some(manager_name),
                 !.buyout_clause = p.buyoutClause,
                 !.buyout_locked_until =
                     IF TruthyStr(p.buyoutClauseLockedEndTime)
                         THEN Some(ISO_TIMES[p.buyoutClauseLockedEndTime[1]])
                     ELSE @]]

\* the loop body of _enrich_ownership_data for one roster entry
ownership_step(players, manager_name, p) ==
    [i \in 1..Len(players) |->
        IF players[i].id # p.playerMaster.id THEN players[i]
        ELSE [players[i] EXCEPT
                 !.owned_by = Some(manager_name),
                 !.buyout_clause = p.buyoutClause,
                 !.buyout_locked_until =
                     IF TruthyStr(p.buyoutClauseLockedEndTime)
                        /\ p.buyoutClauseLockedEndTime[1] \in DOMAIN ISO_TIMES
                         THEN Some(ISO_TIMES[p.buyoutClauseLockedEndTime[1]])
                     ELSE @]]

\* players after the roster entries of one file from position k on
RECURSIVE RosterLoop(_, _, _, _)
RosterLoop(players, manager_name, roster, k) ==
    IF k > Len(roster) THEN players
    ELSE RosterLoop(ownership_step(players, manager_name, roster[k]),
                    manager_name, roster, k + 1)

\* players after the files from position k on, in the order glob gave them
RECURSIVE FileLoop(_, _, _)
FileLoop(players, team_files, k) ==
    IF k > Len(team_files) THEN players
    ELSE FileLoop(RosterLoop(players,
                             team_files[k].content.manager.managerName,
                             team_files[k].content.players, 1),
                  team_files, k + 1)

\* self.equipos_dir.glob(f"*{latest_date}.json")
glob_date(directory, latest_date) ==
    {f \in directory : f.name.date = latest_date}

\* team_files: the files of the latest date in the order glob yields them
_enrich_ownership_data(players, team_files) == FileLoop(players, team_files, 1)

\* the orders in which glob may yield the files of a set
GlobOrders(files) ==
    {s \in [1..Cardinality(files) -> files] :
        \A i, j \in 1..Cardinality(files) : i # j => s[i] # s[j]}

\* p['team'] raises KeyError when the entry has no "team" key
entry_raises(p) == "team" \notin DOMAIN p

\* team_data['manager'] raises KeyError when the file has no "manager" key
file_raises(f) == "manager" \notin DOMAIN f.content

\* load_all_players ends in a KeyError: nothing catches it in the loader
load_raises(dir, team_files) ==
    The({/\ data # None
         /\ data[1] # <<>>
         /\ \/ \E i \in 1..Len(data[1]) : entry_raises(data[1][i])
            \/ \E k \in 1..Len(team_files) : file_raises(team_files[k]) :
            data \in {load_latest_file(dir.players, "players")}})

\* load_all_players when it returns, the roster files of the latest date
\* coming in the order team_files
load_all_players(dir, team_files) ==
    The({IF data = None \/ data[1] = <<>> THEN <<>>
         ELSE _enrich_ownership_data(
                  _enrich_market_data(
                      [i \in 1..Len(data[1]) |-> new_player(data[1][i])],
                      dir.market),
                  team_files) :
            data \in {load_latest_file(dir.players, "players")}})

----------------------------------------------------------------------------
(* The snapshots on disk and one load_all_players over them.               *)

MaxMarket == 2

MaxDate == 2

File(prefix, date, content) ==
    [name |-> [prefix |-> prefix, date |-> date], content |-> content]

\* an entry of the global list with every optional key present
FullEntry(id) ==
    [id |-> id, nickname |-> id, positionId |-> "3",
     team |-> [id |-> "t1", name |-> "Real Madrid"],
     points |-> Some(12), averagePoints |-> Some(RInt(5)),
     lastSeasonPoints |-> Some("12"), marketValue |-> Some("8000000"),
     playerStatus |-> Some("injured")]

\* an entry of the global list with the optional keys missing
BareEntry(id) ==
    [id |-> id, nickname |-> id, positionId |-> "1",
     team |-> [id |-> "t2", name |-> "Valencia CF"],
     points |-> None, averagePoints |-> None, lastSeasonPoints |-> None,
     marketValue |-> None, playerStatus |-> None]

\* an entry of the global list whose numbers are zero
ZeroEntry(id) ==
    [FullEntry(id) EXCEPT !.points = Some(0), !.averagePoints = Some(RInt(0)),
                          !.lastSeasonPoints = Some("0"),
                          !.marketValue = Some("0"),
                          !.playerStatus = Some("ok")]

\* an entry of the global list without its "team" key
TeamlessEntry(id) ==
    [id |-> id, nickname |-> id, positionId |-> "3",
     points |-> Some(12), averagePoints |-> Some(RInt(5)),
     lastSeasonPoints |-> Some("12"), marketValue |-> Some("8000000"),
     playerStatus |-> Some("ok")]

GlobalLists ==
    { <<FullEntry("p1"), BareEntry("p2"), ZeroEntry("p3")>>,
      <<BareEntry("p3"), FullEntry("p2"), FullEntry("p1")>>,
      <<FullEntry("p1"), TeamlessEntry("p2"), ZeroEntry("p3")>> }

\* data_dir/players: empty, one snapshot, or an older snapshot beside it
PlayersDirs ==
    {{}} \cup {{File("players", 2, gl)} : gl \in GlobalLists}
         \cup {{File("players", 1, <<FullEntry("p9")>>),
                File("players", 2, gl)} : gl \in GlobalLists}

MarketEntry(id, discr, sale) ==
    [playerMaster |-> [id |-> id], discr |-> discr, salePrice |-> sale]

MarketEntries ==
    { MarketEntry("p1", "marketPlayerLeague", Some(3 * MILLION)),
      MarketEntry("p1", "marketPlayerTeam", Some(4 * MILLION)),
      MarketEntry("p2", "marketPlayerLeague", None),
      MarketEntry("px", "marketPlayerLeague", Some(3 * MILLION)) }

\* data_dir/market: empty, or one snapshot of at most MaxMarket entries
MarketDirs ==
    {{}} \cup {{File("market", 2, entries)} :
                  entries \in UNION {[1..n -> MarketEntries] :
                                        n \in 0..MaxMarket}}

OwnershipEntry(id, clause, lock) ==
    [playerMaster |-> [id |-> id], buyoutClause |-> clause,
     buyoutClauseLockedEndTime |-> lock]

\* the lock timestamps a roster entry may carry: none, one that parses,
\* one that does not
LockStrings == {None, Some("2025-01-01T00:00:00"), Some("2025-01-02 soon")}

\* the roster snapshot of a manager at a date: ana holds p1 and p2, zoe an
\* unlisted player and p3; the clauses tell the dates apart
Roster(manager, date, lock) ==
    [manager |-> [managerName |-> manager],
     players |->
         IF manager = "ana"
             THEN <<OwnershipEntry("p1", Some((5 + date) * MILLION), lock),
                    OwnershipEntry("p2", None,
                                   Some("2025-01-02T00:00:00"))>>
         ELSE <<OwnershipEntry("px", Some(MILLION), None),
                OwnershipEntry("p3", Some((7 + date) * MILLION),
                               Some("2025-01-02T00:00:00"))>>]

\* a roster snapshot without its "manager" key
Headless(roster) == [players |-> roster.players]

\* data_dir/equipos: any set of snapshots <manager>_<date>.json; zoe's
\* snapshots may lack the manager record
EquiposDirs ==
    { {File(cell[1], cell[2],
            IF headless /\ cell[1] = "zoe"
                THEN Headless(Roster(cell[1], cell[2], lock))
            ELSE Roster(cell[1], cell[2], lock)) :
          cell \in cells} :
        cells \in SUBSET ({"ana", "zoe"} \X (1..MaxDate)),
        lock \in LockStrings,
        headless \in BOOLEAN }

LoaderInit ==
    /\ data_dir \in [players : PlayersDirs, market : MarketDirs,
                     equipos : EquiposDirs]
    /\ all_players = <<>>
    /\ calls = 0
    /\ fixtures = <<>>
    /\ subject = None
    /\ eval_result = None
    /\ scrape_memo = <<>>
    /\ my_team = <<>>
    /\ team_money = None
    /\ now = 1
    /\ max_suggestions = 0
    /\ budget_arg = RInt(0)
    /\ suggestions = <<>>
    /\ outcome = "none"
    /\ formatted = <<>>
    /\ search_time = 0
    /\ cost_query = <<>>
    /\ transfer_query = <<>>
    /\ difficulty_query = <<>>
    /\ score_query = None
    /\ team_loaded = FALSE
    /\ analysis = None
    /\ events = <<>>
    /\ lru_order = <<>>
    /\ failed_scrapes = {}

\* the roster files _enrich_ownership_data reads, in an order glob may
\* yield them
TeamFileOrders(equipos) ==
    IF load_latest_date(equipos) = None THEN {<<>>}
    ELSE GlobOrders(glob_date(equipos, load_latest_date(equipos)[1]))

\* loader.load_all_players()
LoadAllPlayers ==
    /\ calls = 0
    /\ calls' = 1
    /\ \E team_files \in TeamFileOrders(data_dir.equipos) :
           IF load_raises(data_dir, team_files)
               THEN outcome' = "KeyError" /\ all_players' = all_players
           ELSE /\ outcome' = "ok"
                /\ all_players' = load_all_players(data_dir, team_files)
    /\ UNCHANGED <<team_loaded, analysis, events, lru_order,
                   failed_scrapes,
                   my_team, team_money, fixtures, now, max_suggestions,
                   budget_arg, suggestions, formatted, scrape_memo,
                   search_time, cost_query, transfer_query, subject,
                   eval_result, data_dir, difficulty_query, score_query>>

LoaderNext == LoadAllPlayers

LoaderSpec == LoaderInit /\ [][LoaderNext]_vars

----------------------------------------------------------------------------
(* Properties of load_all_players, stated on the snapshots and the list    *)
(* of players it returned.                                                 *)

\* load_all_players has returned
Loaded == calls = 1 /\ data_dir # <<>> /\ outcome = "ok"

\* the content of the snapshot of the greatest date in a directory of
\* snapshots of one prefix; the empty list when there is none
NewestContent(directory) ==
    IF directory = {} THEN <<>>
    ELSE (CHOOSE f \in directory :
              \A g \in directory : g.name.date <= f.name.date).content

GlobalList == NewestContent(data_dir.players)

MarketList == NewestContent(data_dir.market)

\* an optional numeral of a snapshot as a number, unset when missing
NumberOf(o) == IF o = None THEN None ELSE Some(INT_OF[o[1]])

\* player pl carries the identity, performance and market-value fields of
\* the global-list entry g, a missing key giving the dataclass default
BaseFieldsOf(pl, g) ==
    /\ pl.id = g.id
    /\ pl.nickname = g.nickname
    /\ Some(pl.position_id) = NumberOf(Some(g.positionId))
    /\ pl.team_id = g.team.id
    /\ pl.team_name = g.team.name
    /\ pl.points = IF g.points = None THEN 0 ELSE g.points[1]
    /\ pl.average_points =
           IF g.averagePoints = None THEN RInt(0) ELSE g.averagePoints[1]
    /\ pl.last_season_points = NumberOf(g.lastSeasonPoints)
    /\ Some(pl.market_value) =
           IF g.marketValue = None THEN Some(0) ELSE NumberOf(g.marketValue)
    /\ pl.player_status =
           IF g.playerStatus = None THEN "ok" ELSE g.playerStatus[1]

Unmarked(pl) ==
    /\ ~pl.is_on_market
    /\ pl.owned_by = None
    /\ pl.sale_price = None
    /\ pl.buyout_clause = None
    /\ pl.buyout_locked_until = None

(* C17: when the market snapshot and the ownership snapshots hold no       *)
(* entries, load_all_players yields exactly one Player per entry of the    *)
(* global list, in its order, whose identity, performance and market       *)
(* value fields equal the entry's, with is_on_market false and owned_by,   *)
(* sale_price, buyout_clause and buyout_locked_until unset.                *)
C17_BaseRoundTrip ==
    (Loaded /\ MarketList = <<>> /\ data_dir.equipos = {}) =>
        /\ Len(all_players) = Len(GlobalList)
        /\ \A i \in 1..Len(all_players) :
               /\ BaseFieldsOf(all_players[i], GlobalList[i])
               /\ Unmarked(all_players[i])

\* a load of a global list with missing keys and zero numerals, beside an
\* older snapshot, an empty market snapshot and no roster snapshots
C17_Witness ==
    /\ Loaded
    /\ data_dir.equipos = {}
    /\ data_dir.market # {}
    /\ MarketList = <<>>
    /\ Cardinality(data_dir.players) = 2
    /\ Len(all_players) = 3
    /\ \E i \in 1..Len(all_players) : all_players[i].last_season_points = None
    /\ \E i \in 1..Len(all_players) :
           all_players[i].last_season_points = Some(0)

\* the positions of the market entries about a player id
EntriesAbout(id) ==
    {k \in 1..Len(MarketList) : MarketList[k].playerMaster.id = id}

\* the last market entry about a player id
LastAbout(id) ==
    MarketList[CHOOSE k \in EntriesAbout(id) :
                   \A m \in EntriesAbout(id) : m <= k]

(* C18: a market entry about a player of the global list sets              *)
(* is_on_market unless its type is "marketPlayerTeam", which leaves it     *)
(* unchanged, and records its sale price in both cases: after the load a   *)
(* player is on the market exactly when some entry about it is not of      *)
(* that type, and carries the sale price of the last entry about it;       *)
(* entries about unknown ids change no player.                             *)
C18_MarketEntries ==
    Loaded =>
        \A i \in 1..Len(all_players) :
            /\ all_players[i].is_on_market <=>
                   \E k \in EntriesAbout(all_players[i].id) :
                       MarketList[k].discr # "marketPlayerTeam"
            /\ all_players[i].sale_price =
                   IF EntriesAbout(all_players[i].id) = {} THEN None
                   ELSE LastAbout(all_players[i].id).salePrice

\* a load met an entry about an unknown id and left a player off the
\* market with the sale price of a team holding
C18_Witness ==
    /\ Loaded
    /\ \E k \in 1..Len(MarketList) :
           \A i \in 1..Len(all_players) :
               all_players[i].id # MarketList[k].playerMaster.id
    /\ \E i \in 1..Len(all_players) :
           /\ ~all_players[i].is_on_market
           /\ all_players[i].sale_price = Some(4 * MILLION)

\* the roster snapshots of the date the loader chose
ChosenFiles ==
    IF load_latest_date(data_dir.equipos) = None THEN {}
    ELSE {f \in data_dir.equipos :
             f.name.date = load_latest_date(data_dir.equipos)[1]}

\* the lock a roster entry leaves: its timestamp parsed, unset when the
\* timestamp is missing or does not parse
LockOf(e) ==
    IF e.buyoutClauseLockedEndTime # None
       /\ e.buyoutClauseLockedEndTime[1] \in DOMAIN ISO_TIMES
        THEN Some(ISO_TIMES[e.buyoutClauseLockedEndTime[1]])
    ELSE None

Unparsed(e) ==
    /\ e.buyoutClauseLockedEndTime # None
    /\ e.buyoutClauseLockedEndTime[1] \notin DOMAIN ISO_TIMES

(* C19: for every entry of a roster snapshot of the chosen date about a    *)
(* player of the global list, the player has owned_by = the snapshot's     *)
(* manager, buyout_clause = the entry's clause and buyout_locked_until =   *)
(* the parsed lock timestamp; when the timestamp does not parse the lock   *)
(* stays unset while owned_by and buyout_clause are set, and the entries   *)
(* after it are merged as well.                                            *)
C19_OwnershipEntries ==
    Loaded =>
        \A f \in ChosenFiles :
            \A k \in 1..Len(f.content.players), i \in 1..Len(all_players) :
                all_players[i].id = f.content.players[k].playerMaster.id =>
                    /\ all_players[i].owned_by =
                           Some(f.content.manager.managerName)
                    /\ all_players[i].buyout_clause =
                           f.content.players[k].buyoutClause
                    /\ all_players[i].buyout_locked_until =
                           LockOf(f.content.players[k])

\* a load merged an entry whose timestamp does not parse, leaving the lock
\* unset and the owner and clause set, and merged the entry after it
C19_Witness ==
    /\ Loaded
    /\ \E f \in ChosenFiles :
           \E i \in 1..Len(all_players), j \in 1..Len(all_players) :
               /\ Unparsed(f.content.players[1])
               /\ all_players[i].id = f.content.players[1].playerMaster.id
               /\ all_players[i].owned_by # None
               /\ all_players[i].buyout_clause # None
               /\ all_players[i].buyout_locked_until = None
               /\ all_players[j].id = f.content.players[2].playerMaster.id
               /\ all_players[j].buyout_locked_until = Some(2)

\* the greatest date among the roster snapshots
GreatestDate ==
    CHOOSE d \in {f.name.date : f \in data_dir.equipos} :
        \A f \in data_dir.equipos : f.name.date <= d

\* the entries of roster snapshot f show on the players they are about
Merged(f) ==
    \A k \in 1..Len(f.content.players), i \in 1..Len(all_players) :
        all_players[i].id = f.content.players[k].playerMaster.id =>
            /\ all_players[i].owned_by = Some(f.content.manager.managerName)
            /\ all_players[i].buyout_clause = f.content.players[k].buyoutClause

(* C20: the roster snapshots merged by load_all_players are exactly the    *)
(* files whose date is the greatest date among all roster files, whatever  *)
(* the managers' names; no snapshot of an older date is merged when a      *)
(* newer one exists.                                                       *)
C20_LatestSnapshotsMerged ==
    (Loaded /\ all_players # <<>>) =>
        \A f \in data_dir.equipos :
            Merged(f) <=> f.name.date = GreatestDate


(* C21: after load_all_players, for every combination of market and        *)
(* ownership snapshots, no Player carries contradictory flags: a player    *)
(* is never on the market and owned at the same time, and market_value is  *)
(* never negative.                                                         *)
C21_NoContradictoryFlags ==
    Loaded =>
        \A i \in 1..Len(all_players) :
            /\ ~(all_players[i].is_on_market
                 /\ all_players[i].owned_by # None)
            /\ all_players[i].market_value >= 0

LoadAttempted == calls = 1 /\ data_dir # <<>>

\* the entries of the latest global list that carry every required key
WellFormed == {i \in 1..Len(GlobalList) : "team" \in DOMAIN GlobalList[i]}

(* C22: when a single entry of the global-player snapshot, or a roster     *)
(* snapshot, is malformed (lacks a required field such as the team or the  *)
(* manager record), load_all_players skips only that entry and still       *)
(* returns the Players built from all the well-formed entries; one bad     *)
(* record never empties or aborts the whole batch.                         *)
C22_MalformedEntrySkipped ==
    LoadAttempted =>
        /\ outcome = "ok"
        /\ \A i \in WellFormed :
               \E j \in 1..Len(all_players) :
                   all_players[j].id = GlobalList[i].id

----------------------------------------------------------------------------
(* One session of the agent, from its construction: initialize, which may  *)
(* fail to load a team, analyze_current_team and suggest_transfers.        *)

\* the owned players as _parse_team_players builds them, before enrichment
RunTeams ==
    { <<>>,
      <<Player("a", 5, RInt(0), <<>>, MILLION, "ok", None)>>,
      <<Player("a", 3, RInt(0), FullMinutes, 8 * MILLION, "ok", None)>>,
      <<Player("a", 3, RInt(0), FullMinutes, 8 * MILLION, "ok", None),
        Player("b", 3, RInt(5), <<>>, 8 * MILLION, "injured", None)>>,
      <<Player("b", 5, RInt(0), <<>>, MILLION, "ok", None),
        Player("a", 3, RInt(0), FullMinutes, 8 * MILLION, "ok", None)>>,
      <<Player("a", 3, RInt(0), <<54, 54, 54>>, 8 * MILLION, "ok", None)>>,
      <<Player("a", 3, RInt(0), <<54, 54, 53>>, 8 * MILLION, "ok", None)>> }

\* the pool as load_all_players builds it: no signal, no minutes
Fresh(p) == [p EXCEPT !.scraped_data = None]

\* an entry of the global list for an available player averaging 10 points
StrongEntry(id) ==
    [FullEntry(id) EXCEPT !.averagePoints = Some(RInt(10)),
                          !.playerStatus = Some("ok")]

\* a data directory: two players in the global list, both listed on the
\* market, no roster snapshots
RunDataDir ==
    [players |-> {File("players", 1, <<StrongEntry("c"), ZeroEntry("p3")>>)},
     market  |-> {File("market", 1,
                       <<MarketEntry("c", "marketPlayerLeague",
                                     Some(3 * MILLION)),
                         MarketEntry("p3", "marketPlayerLeague",
                                     Some(MILLION))>>)},
     equipos |-> {}]

\* the pool load_all_players returns for RunDataDir
LoadedPool == load_all_players(RunDataDir, <<>>)

RunPools ==
    { <<Fresh(Bargain("c")), Fresh(OwnedIdVariant("a"))>>,
      <<Fresh(Bargain("c")),
        Listed(Player("k", 5, RInt(10), NoMinutes, MILLION, "ok", None),
               Some(MILLION))>>,
      LoadedPool }

RunInit ==
    /\ team_loaded = FALSE
    /\ my_team = <<>>
    /\ team_money = None
    /\ all_players = <<>>
    /\ fixtures = <<>>
    /\ analysis = None
    /\ events = <<>>
    /\ lru_order = <<>>
    /\ failed_scrapes = {}
    /\ scrape_memo = <<>>
    /\ now = 1
    /\ max_suggestions = 0
    /\ budget_arg = RInt(0)
    /\ suggestions = <<>>
    /\ outcome = "none"
    /\ formatted = <<>>
    /\ search_time = 0
    /\ calls = 0
    /\ cost_query = <<>>
    /\ transfer_query = <<>>
    /\ subject = None
    /\ eval_result = None
    /\ data_dir = <<>>
    /\ difficulty_query = <<>>
    /\ score_query = None

\* agent.initialize(team_name, enrich_current_team): load_my_team gives no
\* team (or raises), or the team is loaded and enriched, the pool and the
\* calendar are loaded and the evaluator is built
Initialize ==
    /\ calls = 0
    /\ calls' = 1
    /\ \E loaded \in {None} \cup {Some(team) : team \in RunTeams} :
         IF loaded = None
             THEN UNCHANGED <<team_loaded, my_team, team_money, all_players,
                              fixtures, events, lru_order, failed_scrapes,
                              scrape_memo>>
         ELSE
           \E enrich_current_team \in BOOLEAN, money \in Budgets,
              pool \in RunPools :
             \E batch \in {IF enrich_current_team
                               THEN batch_from(loaded[1], 1, 0) ELSE <<>>} :
               \E res \in [Range(batch) -> ScrapeOutcomes] :
                   /\ team_loaded' = TRUE
                   /\ my_team' = [i \in 1..Len(loaded[1]) |->
                                     IF enrich_current_team
                                        /\ loaded[1][i].position_id # 5
                                         THEN enrich_player(loaded[1][i], res)
                                     ELSE loaded[1][i]]
                   /\ team_money' = money
                   /\ lru_order' = lru_touch_all(lru_order, batch, 1)
                   /\ scrape_memo' = lru_kept(res, lru_order')
                   /\ failed_scrapes' = {id \in Range(batch) : res[id] = None}
                   /\ events' =
                          IF enrich_current_team
                              THEN <<EnrichPhase(Range(batch),
                                                 {id \in Range(batch) :
                                                      res[id] # None})>>
                          ELSE <<>>
                   /\ all_players' = pool
                   /\ fixtures' = <<Fixture1>>
    /\ UNCHANGED <<analysis, now, max_suggestions, budget_arg, suggestions,
                   outcome, formatted, search_time, cost_query,
                   transfer_query, subject, eval_result, data_dir,
                   difficulty_query, score_query>>

\* the dictionary analyze_current_team builds for one owned player
player_dict(player, eval) ==
    [Name      |-> player.id,
     Pos       |-> player.position_id,
     Team      |-> player.team_name,
     Score     |-> RoundScaled(eval.total_score, 10),
     Form      |-> RoundScaled(eval.form, 10),
     Season    |-> RoundScaled(eval.ppg, 10),
     Fixtures  |-> RoundScaled(eval.fixtures, 10),
     Price     |-> RoundScaled(price_in_millions(player), 10),
     Status    |-> player.player_status,
     Jerarquia |->
         IF player.scraped_data # None
            /\ TruthyInt(player.scraped_data[1].jerarquia)
             THEN <<"/6", player.scraped_data[1].jerarquia[1]>>
         ELSE NA,
     PlayProb  |->
         IF player.scraped_data # None
            /\ player.scraped_data[1].play_probability # None
             THEN <<"%", RoundScaled(
                      MulQ(player.scraped_data[1].play_probability[1],
                           RInt(100)), 1)>>
         ELSE NA,
     FormArrow |->
         IF player.scraped_data # None
            /\ TruthyInt(player.scraped_data[1].form_arrow)
             THEN <<"fire", player.scraped_data[1].form_arrow[1]>>
         ELSE NA,
     InjuryRisk |->
         IF player.scraped_data # None
            /\ TruthyStr(player.scraped_data[1].injury_risk)
             THEN <<player.scraped_data[1].injury_risk[1]>>
         ELSE NA]

\* the rows for team[i..], coaches skipped
RECURSIVE team_analysis(_, _, _)
team_analysis(fs, team, i) ==
    IF i > Len(team) THEN <<>>
    ELSE (IF team[i].position_id = 5 THEN <<>>
          ELSE <<player_dict(team[i], evaluate_player(fs, team[i]))>>)
         \o team_analysis(fs, team, i + 1)

\* an analysis that keeps only the players it scored
AnalyzeCurrentTeam_Consuming ==
    /\ analysis = None
    /\ calls' = calls + 1
    /\ analysis' = Some(IF team_loaded
                            THEN team_analysis(fixtures, my_team, 1)
                        ELSE <<>>)
    /\ events' = events
    /\ my_team' = SelectSeq(my_team, LAMBDA p : p.position_id # 5)
    /\ UNCHANGED <<team_loaded, team_money, all_players, fixtures,
                   lru_order, failed_scrapes, scrape_memo, now,
                   max_suggestions, budget_arg, suggestions, outcome,
                   formatted, search_time, cost_query, transfer_query,
                   subject, eval_result, data_dir, difficulty_query,
                   score_query>>

\* agent.analyze_current_team()
AnalyzeCurrentTeam ==
    /\ analysis = None
    /\ calls' = calls + 1
    /\ IF ~team_loaded
           THEN analysis' = Some(<<>>) /\ events' = events
       ELSE /\ analysis' = Some(team_analysis(fixtures, my_team, 1))
            /\ events' =
                   Append(events,
                          EvaluatePhase({my_team[i].id :
                                            i \in non_coaches(my_team)}))
    /\ UNCHANGED <<team_loaded, my_team, team_money, all_players, fixtures,
                   lru_order, failed_scrapes, scrape_memo, now,
                   max_suggestions, budget_arg, suggestions, outcome,
                   formatted, search_time, cost_query, transfer_query,
                   subject, eval_result, data_dir, difficulty_query,
                   score_query>>

\* agent.suggest_transfers(...), once in the session, after the analysis as
\* main and the dashboard call it
RunSuggestTransfers ==
    /\ analysis # None
    /\ outcome = "none"
    /\ DoSuggestTransfers

RunNext ==
    \/ Initialize
    \/ AnalyzeCurrentTeam
    \/ RunSuggestTransfers

RunSpec == RunInit /\ [][RunNext]_vars

----------------------------------------------------------------------------
(* Properties of a session.                                                *)

Analyzed == analysis # None

Suggested == outcome # "none"

(* C23: when analyze_current_team or suggest_transfers is invoked while    *)
(* no Team is loaded (before initialize, or after initialize failed), the  *)
(* caller receives a clear failure that is distinguishable from the valid  *)
(* empty outcome; the call never returns an empty result.                  *)
C23_NoTeamIsAFailure ==
    ~team_loaded =>
        /\ Analyzed => analysis[1] # <<>>
        /\ Suggested => outcome \notin {"empty", "ok"}

\* the step is a call of analyze_current_team, of suggest_transfers
AnalyzeStep == analysis = None /\ analysis' # None

SuggestStep == outcome = "none" /\ outcome' # "none"

\* the step attached no signal
NothingAttached ==
    \A j \in (Len(events) + 1)..Len(events') : events'[j].attached = {}

\* the step changed nothing of the pool but the signals enrichment attached
OnlySignalsAttached ==
    /\ Len(all_players') = Len(all_players)
    /\ \A i \in 1..Len(all_players) :
           [all_players'[i] EXCEPT !.scraped_data = None]
               = [all_players[i] EXCEPT !.scraped_data = None]
    /\ NothingAttached => all_players' = all_players

\* every proposal scores its outgoing player as the analysis scored it,
\* and two proposals score the same player alike
SameScores ==
    /\ \A k \in 1..Len(suggestions'), r \in 1..Len(analysis[1]) :
           analysis[1][r].Name = suggestions'[k].player_out.id =>
               /\ analysis[1][r].Score =
                      RoundScaled(suggestions'[k].player_out_score, 10)
               /\ analysis[1][r].Form =
                      RoundScaled(suggestions'[k].player_out_eval.form, 10)
               /\ analysis[1][r].Fixtures =
                      RoundScaled(suggestions'[k].player_out_eval.fixtures,
                                  10)
    /\ \A k \in 1..Len(suggestions'), l \in 1..Len(suggestions') :
           /\ suggestions'[k].player_out = suggestions'[l].player_out
                  => suggestions'[k].player_out_eval
                         = suggestions'[l].player_out_eval
           /\ suggestions'[k].player_in = suggestions'[l].player_in
                  => suggestions'[k].player_in_eval
                         = suggestions'[l].player_in_eval

FullRun == team_loaded /\ Analyzed /\ Suggested

(* C26: in an analysis run (initialize, analyze_current_team,              *)
(* suggest_transfers) all enrichment happens strictly before evaluation    *)
(* begins: no signal is attached to a Player after the first evaluation    *)
(* of the run, and every player that is evaluated has had its enrichment   *)
(* attempted beforehand.                                                   *)
C26_EnrichmentBeforeEvaluation ==
    FullRun =>
        /\ \A i \in 1..Len(events), j \in 1..Len(events) :
               (i < j /\ events[i].kind = "evaluate"
                      /\ events[i].ids # {}
                      /\ events[j].kind = "enrich")
                   => events[j].attached = {}
        /\ \A j \in 1..Len(events) :
               events[j].kind = "evaluate" =>
                   \A id \in events[j].ids :
                       \E i \in 1..(j - 1) :
                           /\ events[i].kind = "enrich"
                           /\ id \in events[i].ids

----------------------------------------------------------------------------
(* One ScraperManager over a session: lookups of the slug of one player    *)
(* (through enrich_player) and of other slugs, then the player's           *)
(* evaluation. scrape_memo holds the cached results, lru_order the cached  *)
(* keys, events the scraper's invocations.                                 *)

MaxOthers == 101     \* other slugs looked up in one session

\* FantasyScraper(slug).get_player_info() ran: got is its record, or None
\* when it raised
ScrapeEvent(slug, got) == [kind |-> "scrape", slug |-> slug, got |-> got]

\* the record _parse_player_data builds
ParsedRecord ==
    ScraperRecord(Some(3), Some(<<1, 1>>), Some(4), Some("Bajo"), None)

\* a record read back from a cache file that carries the key
\* rs_cuadros_phone
CachedRecord ==
    ScraperRecord(Some(1), Some(<<1, 2>>), None, None, Some("Alto"))

\* what one run of the scraper gives: an exception, or a record
ScraperResults == {None, Some(ParsedRecord), Some(CachedRecord)}

\* the slug of the n-th other player
OtherSlug(n) == ToString(n)

\* the other slugs looked up so far
OthersSeen ==
    Cardinality({j \in 1..Len(events) : events[j].slug # subject.id})

ScraperInit ==
    /\ subject = Unlisted("s")
    /\ scrape_memo = <<>>
    /\ lru_order = <<>>
    /\ failed_scrapes = {}
    /\ events = <<>>
    /\ eval_result = None
    /\ fixtures = <<>>
    /\ calls = 0
    /\ team_loaded = FALSE
    /\ analysis = None
    /\ my_team = <<>>
    /\ team_money = None
    /\ all_players = <<>>
    /\ now = 1
    /\ max_suggestions = 0
    /\ budget_arg = RInt(0)
    /\ suggestions = <<>>
    /\ outcome = "none"
    /\ formatted = <<>>
    /\ search_time = 0
    /\ cost_query = <<>>
    /\ transfer_query = <<>>
    /\ data_dir = <<>>
    /\ difficulty_query = <<>>
    /\ score_query = None

\* scraper_manager.get_player_data(slug), the scraper giving got if it runs
GetPlayerData(slug, got) ==
    /\ lru_order' = lru_touch(lru_order, slug)
    /\ IF slug \in Range(lru_order)
           THEN UNCHANGED <<scrape_memo, failed_scrapes, events>>
       ELSE /\ scrape_memo' =
                   [s \in Range(lru_order') |->
                       IF s = slug
                           THEN get_player_data_miss(slug, failed_scrapes,
                                                     got)
                       ELSE scrape_memo[s]]
            /\ failed_scrapes' =
                   IF scraper_invoked(slug, failed_scrapes) /\ got = None
                       THEN failed_scrapes \cup {slug}
                   ELSE failed_scrapes
            /\ events' =
                   IF scraper_invoked(slug, failed_scrapes)
                       THEN Append(events, ScrapeEvent(slug, got))
                   ELSE events

\* scraper_manager.enrich_player(subject)
LookupSubject ==
    /\ eval_result = None
    /\ \E got \in ScraperResults : GetPlayerData(subject.id, got)
    /\ subject' = enrich_player(subject, scrape_memo')
    /\ UNCHANGED <<calls, team_loaded, analysis, my_team, team_money, all_players,
                   fixtures, now, max_suggestions, budget_arg, suggestions,
                   outcome, formatted, search_time, cost_query,
                   transfer_query, eval_result, data_dir, difficulty_query,
                   score_query>>

\* scraper_manager.get_player_data of a slug not seen before, once the
\* subject has been looked up
LookupOther ==
    /\ OthersSeen < MaxOthers
    /\ eval_result = None
    /\ lru_order # <<>>
    /\ GetPlayerData(OtherSlug(OthersSeen + 1), Some(ParsedRecord))
    /\ UNCHANGED <<calls, team_loaded, analysis, my_team, team_money, all_players,
                   fixtures, now, max_suggestions, budget_arg, suggestions,
                   outcome, formatted, search_time, cost_query,
                   transfer_query, subject, eval_result, data_dir,
                   difficulty_query, score_query>>

ScraperNext ==
    \/ LookupSubject
    \/ LookupOther
    \/ EvaluateSubject

ScraperSpec == ScraperInit /\ [][ScraperNext]_vars

----------------------------------------------------------------------------
(* Remembered failures and the fields of the scraped record                *)

\* the scraper's invocations for slug, oldest first, as positions of events
ScrapesOf(slug) == {j \in 1..Len(events) : events[j].slug = slug}

\* the subject's lookup failed in this session
SubjectFailed == subject.id \in failed_scrapes

\* the evaluation ev of p used the neutral value of every scraped field
NeutralDefaults(ev, p) ==
    /\ ev.jerarquia_score = R(WEIGHTS.jerarquia, 2)
    /\ ev.probability_score = RInt(7)
    /\ ev.injury_score = R(7, 2)
    /\ ev.form_score = AddQ(form_base(p), RInt(5))
    /\ ev.scraped_jerarquia = None
    /\ ev.scraped_probability = None
    /\ ev.scraped_form_arrow = None
    /\ ev.scraped_injury_risk = None

\* a failed run of the scraper is the last run for its slug, and whatever
\* the cache holds for a failed slug is None
FailureRemembered ==
    /\ \A i \in 1..Len(events) : \A j \in 1..Len(events) :
           (i < j /\ events[i].slug = events[j].slug)
               => events[i].got # None
    /\ \A s \in failed_scrapes :
           s \in DOMAIN scrape_memo => scrape_memo[s] = None

\* C24 as stated: once the lookup for a slug has failed, every later call
\* for it returns no signal without running the scraper again, and the
\* player is then evaluated with all neutral defaults.
C24_FailedMeansNeutral ==
    /\ FailureRemembered
    /\ (SubjectFailed /\ eval_result # None)
           => NeutralDefaults(eval_result[1], subject)

\* C24, amended: once the lookup for a slug has failed, every later call for
\* it returns no signal without running the scraper again; the player is
\* then evaluated with all neutral defaults if the scraper never succeeded
\* for it, and with the signal of the earlier success otherwise.
C24_FailureRememberedNeutralIfNeverScraped ==
    /\ FailureRemembered
    /\ (SubjectFailed /\ eval_result # None)
           => IF \A j \in ScrapesOf(subject.id) : events[j].got = None
                  THEN NeutralDefaults(eval_result[1], subject)
              ELSE /\ subject.scraped_data # None
                   /\ \E j \in ScrapesOf(subject.id) :
                          /\ events[j].got # None
                          /\ subject.scraped_data
                                 = Some(scraped_from(events[j].got[1]))
                   /\ eval_result[1]
                          = evaluate_player(fixtures, subject)
                   /\ ~NeutralDefaults(eval_result[1], subject)

\* the subject's lookup succeeded, more than a hundred other slugs evicted
\* the result, the next lookup failed, and the subject was evaluated
C24_Witness ==
    /\ SubjectFailed
    /\ Len(events) > LRU_MAXSIZE
    /\ Cardinality(ScrapesOf(subject.id)) = 2
    /\ subject.scraped_data # None
    /\ eval_result # None

\* the subject's first lookup failed, a hundred other slugs were looked up,
\* and the subject was looked up again and evaluated
C24_WitnessNeverScraped ==
    /\ SubjectFailed
    /\ events[1] = ScrapeEvent(subject.id, None)
    /\ Len(events) > LRU_MAXSIZE
    /\ lru_order[Len(lru_order)] = subject.id
    /\ eval_result # None

\* the last run of the scraper for slug, when its result is still cached
LastScrape(slug) ==
    events[CHOOSE j \in ScrapesOf(slug) :
               \A k \in ScrapesOf(slug) : k <= j]

\* the injury-risk label of a record, under the key _parse_player_data
\* writes
injury_label(data) == data.riesgo_lesion

\* C29: every field the scraper extracts reaches the attached signal: when
\* the record carries an injury-risk label (likewise a rank, a
\* probability, a form indicator), get_player_data returns a signal with
\* that value, and the injury sub-score of the enriched player is computed
\* from the label.
C29_EveryFieldReachesTheSignal ==
    /\ \A s \in DOMAIN scrape_memo :
           LastScrape(s).got # None
               => /\ scrape_memo[s] # None
                  /\ TruthyInt(LastScrape(s).got[1].jerarquia)
                         => scrape_memo[s][1].jerarquia
                                = LastScrape(s).got[1].jerarquia
                  /\ LastScrape(s).got[1].probabilities # None
                         => scrape_memo[s][1].play_probability
                                = LastScrape(s).got[1].probabilities
                  /\ LastScrape(s).got[1].arrow_numbers # None
                         => scrape_memo[s][1].form_arrow
                                = LastScrape(s).got[1].arrow_numbers
                  /\ TruthyStr(injury_label(LastScrape(s).got[1]))
                         => scrape_memo[s][1].injury_risk
                                = injury_label(LastScrape(s).got[1])
    /\ (/\ eval_result # None
        /\ subject.id \in DOMAIN scrape_memo
        /\ LastScrape(subject.id).got # None
        /\ TruthyStr(injury_label(LastScrape(subject.id).got[1])))
           => eval_result[1].injury_score
                  = MulQ(INJURY_RISK_SCORES(
                             injury_label(
                                 LastScrape(subject.id).got[1])[1]),
                         RInt(WEIGHTS.injury))

----------------------------------------------------------------------------
(* The probability and form sub-scores of a player with a signal           *)

\* the signal attached to the evaluated subject
SubjectSignal == subject.scraped_data[1]

\* C27: whenever a scraped play probability p in [0, 1] is present,
\* including p = 0, the play-probability sub-score is p x 10; the default
\* of 7 is used only when the probability is absent.
C27_ProbabilityScaledWhenPresent ==
    eval_result # None
        => IF subject.scraped_data # None
                  /\ SubjectSignal.play_probability # None
               THEN eval_result[1].probability_score
                        = MulQ(SubjectSignal.play_probability[1], RInt(10))
           ELSE eval_result[1].probability_score = RInt(7)

\* C28: for every scraped form indicator in 1..5, get_form_score returns a
\* value in [0, 1], the scraped-form addend of the form sub-score lies in
\* [0, 10], and the form sub-score is never above 25.
C28_FormAddendBounded ==
    (/\ eval_result # None
     /\ subject.scraped_data # None
     /\ SubjectSignal.form_arrow # None
     /\ SubjectSignal.form_arrow[1] \in 1..5)
        => /\ ~LtQ(get_form_score(SubjectSignal), RInt(0))
           /\ ~LtQ(RInt(1), get_form_score(SubjectSignal))
           /\ ~LtQ(SubQ(eval_result[1].form_score, form_base(subject)),
                   RInt(0))
           /\ ~LtQ(RInt(10),
                   SubQ(eval_result[1].form_score, form_base(subject)))
           /\ ~LtQ(RInt(25), eval_result[1].form_score)

----------------------------------------------------------------------------
(* The low-minutes multiplier on candidates and on owned players           *)

\* the sum of the seven sub-scores an evaluation reports
SubScoreSum(ev) ==
    RSumSeq(<<ev.form_score, ev.fixture_score, ev.ppg_score, ev.value_score,
              ev.jerarquia_score, ev.probability_score, ev.injury_score>>)

\* the total of p given its sub-scores: times 0.7 when penalised for low
\* minutes, times 0.5 when p is not available
TotalWith(p, ev, penalised) ==
    MulQ(MulQ(SubScoreSum(ev), IF penalised THEN <<7, 10>> ELSE <<1, 1>>),
         IF p.player_status # "ok" THEN <<1, 2>> ELSE <<1, 1>>)

\* the recorded average of the last-3 minutes is below 54
BelowFiftyFour(p) ==
    LtQ(R(SumSeq(p.minutes_last_3), Len(p.minutes_last_3)), RInt(54))

\* C30: a player with an empty last-3 minutes sequence has reliability 0.5
\* and is scored with the 0.7 multiplier; the pool of load_all_players
\* carries no minutes, so every candidate of a suggestion is scored with
\* the 0.7 multiplier, while an owned player with recorded minutes is
\* penalised exactly when their average is below 54.
C30_PoolAlwaysPenalised ==
    /\ \A i \in 1..Len(all_players) : all_players[i].minutes_last_3 = <<>>
    /\ \A k \in 1..Len(suggestions) :
          /\ suggestions[k].player_in.minutes_last_3 = <<>>
          /\ suggestions[k].player_in_eval.minutes_reliability = <<1, 2>>
          /\ suggestions[k].player_in_eval.total_score
                 = TotalWith(suggestions[k].player_in,
                             suggestions[k].player_in_eval, TRUE)
          /\ suggestions[k].player_out_eval.total_score
                 = TotalWith(suggestions[k].player_out,
                             suggestions[k].player_out_eval,
                             \/ suggestions[k].player_out.minutes_last_3
                                    = <<>>
                             \/ BelowFiftyFour(suggestions[k].player_out))

\* suggest_transfers proposed a candidate of the pool load_all_players built
\* for an owned player averaging exactly 54 minutes, who is not penalised
C30_Witness ==
    /\ all_players = LoadedPool
    /\ \E k \in 1..Len(suggestions) :
          /\ suggestions[k].player_in.id = "c"
          /\ suggestions[k].player_out.minutes_last_3 = <<54, 54, 54>>
          /\ suggestions[k].player_out_eval.total_score
                 = SubScoreSum(suggestions[k].player_out_eval)

\* the same with an owned player averaging less than 54 minutes
C30_WitnessBelow ==
    /\ all_players = LoadedPool
    /\ \E k \in 1..Len(suggestions) :
          /\ suggestions[k].player_in.id = "c"
          /\ suggestions[k].player_out.minutes_last_3 = <<54, 54, 53>>

====
